---------------------------- MODULE Spec2Model ----------------------------
(***************************************************************************)
(* A model of the layout-to-structure engine of Autoscraping_Tool:         *)
(*   - HeadingDetector (src/heading_detector.py): table of contents,       *)
(*     recurring headers/footers, font-size headings, section boundaries;  *)
(*   - MarkdownConverter (src/converter.py): page cleaning, the line walk  *)
(*     of _process_page with its bullet / numbered / paragraph parsers,    *)
(*     table cleaning and hyperlink substitution.                          *)
(*                                                                         *)
(* Text is modelled as a sequence of characters (one-character strings).   *)
(* The two private-use glyphs the code tests for are written as the        *)
(* symbols BULLET and SUBSUB.  A Python None is the empty tuple and an     *)
(* Optional value v is the one-element tuple <<v>>.                        *)
(***************************************************************************)
EXTENDS Integers, Sequences, FiniteSets, TLC

VARIABLES
    pdf,          \* HeadingDetector._pdf: the pages the detector reads
    det,          \* the detector's fields and the boundaries it returned
    conv,         \* the fields of one MarkdownConverter
    para,         \* the paragraph text handed to, and returned by, _apply_hyperlinks
    tabs,         \* the raw tables of a page and what _clean_tables made of them
    content,      \* what _process_page returned for the pages converted so far
    out,          \* what convert returned, or the exception that ended the run
    pc            \* which operation has run

vars == <<pdf, det, conv, para, tabs, content, out, pc>>

(***************************************************************************)
(* Characters and strings                                                  *)
(***************************************************************************)
BULLET == "U+2022"
SUBSUB == "U+F0A7"
None == <<>>

UpperSeq == <<"A","B","C","D","E","F","G","H","I","J","K","L","M",
              "N","O","P","Q","R","S","T","U","V","W","X","Y","Z">>
LowerSeq == <<"a","b","c","d","e","f","g","h","i","j","k","l","m",
              "n","o","p","q","r","s","t","u","v","w","x","y","z">>
DigitSeq == <<"0","1","2","3","4","5","6","7","8","9">>

Range(s) == {s[i] : i \in DOMAIN s}
IsUpper(c) == c \in Range(UpperSeq)
IsLower(c) == c \in Range(LowerSeq)
IsDigit(c) == c \in Range(DigitSeq)
IsSpace(c) == c \in {" ", "\n", "\t"}

\* str.lower() on one character
LowerChar(c) ==
    IF IsUpper(c) THEN LowerSeq[CHOOSE i \in DOMAIN UpperSeq : UpperSeq[i] = c]
    ELSE c

\* str.lower()
Lower(s) == [i \in DOMAIN s |-> LowerChar(s[i])]

Max(a, b) == IF a >= b THEN a ELSE b
Min(a, b) == IF a <= b THEN a ELSE b

\* s[a:b] with 1-based inclusive positions; empty when a > b
Slice(s, a, b) == IF a > b THEN <<>> ELSE SubSeq(s, a, b)

\* number of leading characters of s that belong to cs
RECURSIVE LeadIn(_, _)
LeadIn(s, cs) ==
    IF s = <<>> \/ s[1] \notin cs THEN 0 ELSE 1 + LeadIn(Tail(s), cs)

\* number of trailing characters of s that belong to cs
RECURSIVE TrailIn(_, _)
TrailIn(s, cs) ==
    IF s = <<>> \/ s[Len(s)] \notin cs THEN 0
    ELSE 1 + TrailIn(Slice(s, 1, Len(s) - 1), cs)

\* str.lstrip(chars), str.rstrip(chars), str.strip(chars)
LStripChars(s, cs) == Slice(s, LeadIn(s, cs) + 1, Len(s))
RStripChars(s, cs) == Slice(s, 1, Len(s) - TrailIn(s, cs))
StripChars(s, cs) == RStripChars(LStripChars(s, cs), cs)

WhiteSpace == {" ", "\n", "\t"}
LStrip(s) == LStripChars(s, WhiteSpace)
Strip(s) == StripChars(s, WhiteSpace)

\* len(line) - len(line.lstrip())
IndentOf(line) == Len(line) - Len(LStrip(line))

\* str.startswith(p)
StartsWith(s, p) == Len(p) <= Len(s) /\ Slice(s, 1, Len(p)) = p

\* str.endswith(p)
EndsWith(s, p) == Len(p) <= Len(s) /\ Slice(s, Len(s) - Len(p) + 1, Len(s)) = p

\* the 1-based position of the first occurrence of p in s, 0 when there is none
FindFirst(s, p) ==
    LET hits == {i \in 1..(Len(s) - Len(p) + 1) : Slice(s, i, i + Len(p) - 1) = p}
    IN  IF Len(p) = 0 THEN 1
        ELSE IF hits = {} THEN 0
        ELSE CHOOSE i \in hits : \A k \in hits : i <= k

\* p in s
Contains(s, p) == FindFirst(s, p) > 0

\* str.split(): the words of s, split at runs of whitespace
RECURSIVE SplitWords(_)
SplitWords(s) ==
    LET t == LStrip(s)
        n == IF \E i \in DOMAIN t : IsSpace(t[i])
             THEN (CHOOSE i \in DOMAIN t :
                      IsSpace(t[i]) /\ \A k \in 1..(i - 1) : ~IsSpace(t[k])) - 1
             ELSE Len(t)
    IN  IF t = <<>> THEN <<>>
        ELSE <<Slice(t, 1, n)>> \o SplitWords(Slice(t, n + 1, Len(t)))

\* sep.join(parts)
RECURSIVE Join(_, _)
Join(parts, sep) ==
    IF parts = <<>> THEN <<>>
    ELSE IF Len(parts) = 1 THEN parts[1]
    ELSE parts[1] \o sep \o Join(Tail(parts), sep)

\* ' '.join(s.split())
Collapse(s) == Join(SplitWords(s), <<" ">>)

\* the characters of a sequence of one-character strings read as a number
RECURSIVE DigitsValue(_)
DigitsValue(s) ==
    IF s = <<>> THEN 0
    ELSE 10 * DigitsValue(Slice(s, 1, Len(s) - 1))
         + (CHOOSE i \in DOMAIN DigitSeq : DigitSeq[i] = s[Len(s)]) - 1

\* the sequence s without the elements that fail Keep
KeptIdx(s, keep) == SelectSeq([i \in DOMAIN s |-> i], LAMBDA i : i \in keep)
SelectIdx(s, keep) == [k \in DOMAIN KeptIdx(s, keep) |-> s[KeptIdx(s, keep)[k]]]


(***************************************************************************)
(* HeadingDetector (src/heading_detector.py)                               *)
(*                                                                         *)
(* A page of the detector is a record                                      *)
(*   text  : the lines of page.extract_text(layout=True)                   *)
(*   chars : page.chars grouped by rounded top, a set of records           *)
(*           [top, text, size] with the group's characters joined in x     *)
(*           order and their mean font size                                *)
(***************************************************************************)
Dots2 == <<".", ".">>
Dots3 == <<".", ".", ".">>

\* detect_toc, the body of the loop over the lines of one page: the entry a
\* line yields, or no entry
TocLineEntry(line, page_num) ==
    LET stripped == Strip(line)
        title == Strip(Slice(stripped, 1, FindFirst(stripped, Dots2) - 1))
        ndig == TrailIn(stripped, Range(DigitSeq))
        target_page ==
            IF ndig > 0
            THEN <<DigitsValue(Slice(stripped, Len(stripped) - ndig + 1,
                                     Len(stripped))) - 1>>
            ELSE None
    IN  IF Contains(stripped, Dots3) /\ title # <<>> /\ Len(title) > 2
        THEN <<[title |-> title, indent |-> IndentOf(line),
                target_page |-> target_page, page |-> page_num]>>
        ELSE <<>>

RECURSIVE TocPageEntries(_, _)
TocPageEntries(lines, page_num) ==
    IF lines = <<>> THEN <<>>
    ELSE TocLineEntry(lines[1], page_num) \o TocPageEntries(Tail(lines), page_num)

TocScanPages == 3

\* detect_toc, the raw entries of the first three pages (page_num is 0-based)
RECURSIVE TocRawEntries(_, _)
TocRawEntries(pages, page_num) ==
    IF page_num >= Min(TocScanPages, Len(pages)) THEN <<>>
    ELSE TocPageEntries(pages[page_num + 1].text, page_num)
         \o TocRawEntries(pages, page_num + 1)

MinIndentStart == 999

\* min_indent after the scan
TocMinIndent(entries) ==
    IF entries = <<>> THEN MinIndentStart
    ELSE CHOOSE m \in {entries[i].indent : i \in DOMAIN entries} \cup {MinIndentStart} :
            \A i \in DOMAIN entries : m <= entries[i].indent /\ m <= MinIndentStart

\* the level detect_toc gives an entry
TocLevelStrict(indent, min_indent) == IF indent < min_indent THEN 1 ELSE 2
TocLevel(indent, min_indent) == IF indent <= min_indent THEN 1 ELSE 2

\* detect_toc: (toc_entries, toc_pages)
DetectToc(pages) ==
    LET entries == TocRawEntries(pages, 0)
        min_indent == TocMinIndent(entries)
    IN  [toc_entries |->
            [i \in DOMAIN entries |->
                [title |-> entries[i].title,
                 level |-> TocLevel(entries[i].indent, min_indent),
                 page_num |-> entries[i].target_page]],
         toc_pages |-> {entries[i].page : i \in DOMAIN entries}]

\* the (top_key, line_text) keys of one page that detect_headers_footers counts
PageLineKeys(page) ==
    {<<c.top, Collapse(c.text)>> : c \in {d \in page.chars : Len(Collapse(d.text)) > 2}}

SampleEnd == 10

\* detect_headers_footers: the set it returns; the second argument is the
\* value the field keeps on the early return
DetectHeadersFooters(pages, old_entries) ==
    LET sample_pages == Slice(pages, 2, Min(SampleEnd, Len(pages)))
        keys == UNION {PageLineKeys(sample_pages[i]) : i \in DOMAIN sample_pages}
        count(k) == Cardinality({i \in DOMAIN sample_pages :
                                    k \in PageLineKeys(sample_pages[i])})
    IN  IF Len(sample_pages) < 2 THEN [returned |-> {}, field |-> old_entries]
        ELSE LET hf == {k \in keys : 2 * count(k) >= Len(sample_pages)}
             IN  [returned |-> hf, field |-> hf]

\* the groups of a page ordered by top_key
RECURSIVE SortByTop(_)
SortByTop(groups) ==
    IF groups = {} THEN <<>>
    ELSE LET g == CHOOSE x \in groups : \A y \in groups : x.top <= y.top
         IN  <<g>> \o SortByTop(groups \ {g})

H1MinSize == 14
H1MaxLen == 100
H1MaxWords == 6

\* detect_h1_headings, the test of one line group
IsH1Line(group, header_footer_entries) ==
    LET line_text == Collapse(group.text)
    IN  /\ <<group.top, line_text>> \notin header_footer_entries
        /\ Len(line_text) > 2
        /\ group.size >= H1MinSize
        /\ Len(line_text) < H1MaxLen
        /\ IsUpper(line_text[1])
        /\ (~EndsWith(line_text, <<".">>) \/ Len(SplitWords(line_text)) <= H1MaxWords)

RECURSIVE H1OfGroups(_, _, _)
H1OfGroups(groups, page_num, hf) ==
    IF groups = <<>> THEN <<>>
    ELSE (IF IsH1Line(groups[1], hf)
          THEN <<[title |-> Collapse(groups[1].text), level |-> 1,
                  page_num |-> page_num, y_position |-> groups[1].top]>>
          ELSE <<>>)
         \o H1OfGroups(Tail(groups), page_num, hf)

\* detect_h1_headings (page_num is 0-based)
RECURSIVE DetectH1Headings(_, _, _, _)
DetectH1Headings(pages, page_num, toc_pages, hf) ==
    IF page_num >= Len(pages) THEN <<>>
    ELSE (IF page_num \in toc_pages THEN <<>>
          ELSE H1OfGroups(SortByTop(pages[page_num + 1].chars), page_num, hf))
         \o DetectH1Headings(pages, page_num + 1, toc_pages, hf)

\* _boundaries_from_toc, one entry: "Ensure valid range"
TocRangeStartUnclamped(start_page, end_page, total_pages) ==
    LET s == Max(0, start_page)
    IN  [start_page |-> s, end_page |-> Max(s, Min(end_page, total_pages - 1))]
TocRangeEndBeforeStart(start_page, end_page, total_pages) ==
    [start_page |-> Max(0, Min(start_page, total_pages - 1)),
     end_page |-> Min(end_page, total_pages - 1)]
TocRange(start_page, end_page, total_pages) ==
    LET s == Max(0, Min(start_page, total_pages - 1))
    IN  [start_page |-> s, end_page |-> Max(s, Min(end_page, total_pages - 1))]

\* _boundaries_from_toc
BoundariesFromToc(entries, total_pages) ==
    [i \in DOMAIN entries |->
        LET start_page == IF entries[i].page_num # None
                          THEN entries[i].page_num[1] ELSE 0
            end_page ==
                IF i + 1 <= Len(entries)
                THEN (IF entries[i + 1].page_num # None
                      THEN entries[i + 1].page_num[1] ELSE total_pages - 1)
                ELSE total_pages - 1
            r == TocRange(start_page, end_page, total_pages)
        IN  [title |-> entries[i].title, start_page |-> r.start_page,
             end_page |-> r.end_page]]

\* _boundaries_from_headings
BoundariesFromHeadings(headings, total_pages) ==
    [i \in DOMAIN headings |->
        LET start_page == headings[i].page_num
            end_page == IF i + 1 <= Len(headings)
                        THEN headings[i + 1].page_num ELSE total_pages - 1
        IN  [title |-> headings[i].title, start_page |-> start_page,
             end_page |-> Max(start_page, end_page)]]

DocumentTitle == <<"D","o","c","u","m","e","n","t">>

\* get_section_boundaries: the detector's fields after the call, the list
\* it returns and the path that produced it
GetSectionBoundaries(pages, d) ==
    LET toc == DetectToc(pages)
        hf == DetectHeadersFooters(pages, d.header_footer_entries).field
        toc_entries == toc.toc_entries
        main_entries == SelectIdx(toc_entries,
                                  {i \in DOMAIN toc_entries : toc_entries[i].level = 1})
        sub_titles == IF toc_entries # <<>>
                      THEN {toc_entries[i].title :
                                i \in {k \in DOMAIN toc_entries : toc_entries[k].level = 2}}
                      ELSE d.sub_titles
        h1_headings == DetectH1Headings(pages, 0, toc.toc_pages, hf)
        base == [toc_pages |-> toc.toc_pages, header_footer_entries |-> hf,
                 sub_titles |-> sub_titles, toc_entries |-> toc_entries,
                 path |-> "none", boundaries |-> <<>>]
    IN  IF toc_entries # <<>> /\ main_entries # <<>>
        THEN [base EXCEPT !.path = "toc",
                          !.boundaries = BoundariesFromToc(main_entries, Len(pages))]
        ELSE IF h1_headings # <<>>
        THEN [base EXCEPT !.path = "headings",
                          !.boundaries = BoundariesFromHeadings(h1_headings, Len(pages))]
        ELSE [base EXCEPT !.path = "single",
                          !.boundaries = <<[title |-> DocumentTitle, start_page |-> 0,
                                            end_page |-> Len(pages) - 1]>>]

(***************************************************************************)
(* MarkdownConverter (src/converter.py)                                    *)
(*                                                                         *)
(* The fields of a converter are a record:                                 *)
(*   section_title, sub_titles, header_footer_entries, _content_started,   *)
(*   hyperlinks   : a sequence of [text, url, is_internal]                 *)
(*   all_sections : the dict title -> markdown file name, as the sequence  *)
(*                  of its [title, file] items in insertion order          *)
(***************************************************************************)

\* MarkdownConverter.__init__
NewConverter(section_title, hyperlinks, header_footer_entries, all_sections, sub_titles) ==
    [section_title |-> section_title, hyperlinks |-> hyperlinks,
     header_footer_entries |-> header_footer_entries,
     all_sections |-> all_sections, sub_titles |-> sub_titles,
     images |-> <<>>, content_started |-> FALSE]

\* str.replace(old, new, 1)
ReplaceFirst(s, old, new) ==
    LET i == FindFirst(s, old)
    IN  IF i = 0 THEN s
        ELSE Slice(s, 1, i - 1) \o new \o Slice(s, i + Len(old), Len(s))

\* _apply_hyperlinks, the first loop: adjacent links to the same URL become
\* one logical span, except internal ones
RECURSIVE MergeLinks(_, _)
MergeLinks(links, merged) ==
    IF links = <<>> THEN merged
    ELSE LET link == links[1]
             n == Len(merged)
         IN  IF n > 0 /\ merged[n].url = link.url /\ ~link.is_internal
             THEN MergeLinks(Tail(links),
                     [merged EXCEPT ![n].text = @ \o <<" ">> \o link.text])
             ELSE MergeLinks(Tail(links),
                     Append(merged, [text |-> link.text, url |-> link.url,
                                     is_internal |-> link.is_internal]))

\* sorted(merged, key=len(text), reverse=True): a stable sort
RECURSIVE SortLongestFirst(_)
SortLongestFirst(merged) ==
    IF merged = <<>> THEN <<>>
    ELSE LET i == CHOOSE k \in DOMAIN merged :
                    /\ \A j \in DOMAIN merged : Len(merged[k].text) >= Len(merged[j].text)
                    /\ \A j \in 1..(k - 1) : Len(merged[j].text) < Len(merged[k].text)
         IN  <<merged[i]>> \o SortLongestFirst(SelectIdx(merged, DOMAIN merged \ {i}))

LinkOpen == <<"[">>
LinkMid == <<"]","(">>
LinkClose == <<")">>
MarkdownDir == <<".",".","/","m","a","r","k","d","o","w","n","/">>

\* the markdown link an external span is replaced by
ExternalLink(ml) == LinkOpen \o ml.text \o LinkMid \o ml.url \o LinkClose

\* the markdown link an internal span is replaced by
InternalLink(ml, md_file) ==
    LinkOpen \o ml.text \o LinkMid \o MarkdownDir \o md_file \o LinkClose

\* the sections an internal link's target resolves to, in dict order
ResolvingSections(ml, all_sections) ==
    SelectIdx(all_sections,
              {i \in DOMAIN all_sections :
                  \/ Contains(Lower(ml.url), Lower(all_sections[i].title))
                  \/ Contains(Lower(all_sections[i].title), Lower(ml.url))})

\* _apply_hyperlinks, one turn of the second loop
ApplyOneLink(text, ml, all_sections) ==
    IF ~Contains(text, ml.text) THEN text
    ELSE IF ml.is_internal
    THEN LET found == ResolvingSections(ml, all_sections)
         IN  IF found = <<>> THEN text
             ELSE ReplaceFirst(text, ml.text, InternalLink(ml, found[1].file))
    ELSE ReplaceFirst(text, ml.text, ExternalLink(ml))

RECURSIVE ApplyLinks(_, _, _)
ApplyLinks(text, mls, all_sections) ==
    IF mls = <<>> THEN text
    ELSE ApplyLinks(ApplyOneLink(text, mls[1], all_sections), Tail(mls), all_sections)

\* _apply_hyperlinks
ApplyHyperlinks(c, text) ==
    ApplyLinks(text, SortLongestFirst(MergeLinks(c.hyperlinks, <<>>)), c.all_sections)

(***************************************************************************)
(* Table cleaning.  A raw table is a sequence of rows, a row a sequence    *)
(* of cells, a cell a text or None.                                        *)
(***************************************************************************)

\* str.split('\n')
RECURSIVE SplitLines(_)
SplitLines(s) ==
    LET i == FindFirst(s, <<"\n">>)
    IN  IF i = 0 THEN <<s>>
        ELSE <<Slice(s, 1, i - 1)>> \o SplitLines(Slice(s, i + 1, Len(s)))

\* [f(x) for x in s if keep(x)] for a sequence of texts: the stripped,
\* non-blank ones
RECURSIVE StrippedNonBlank(_)
StrippedNonBlank(parts) ==
    IF parts = <<>> THEN <<>>
    ELSE (IF Strip(parts[1]) # <<>> THEN <<Strip(parts[1])>> ELSE <<>>)
         \o StrippedNonBlank(Tail(parts))

FragmentMinLen == 3

\* _clean_table_cell: whether a cell line is a fragment of a header/footer
IsHeaderFragment(line, header_texts) ==
    /\ Len(line) > FragmentMinLen
    /\ \E header \in header_texts : Contains(header, line) \/ StartsWith(header, line)

\* _clean_table_cell
CleanTableCellUnguarded(cell, header_texts) ==
    LET lines == StrippedNonBlank(SplitLines(cell))
        filtered == SelectIdx(lines, {i \in DOMAIN lines :
                                        ~IsHeaderFragment(lines[i], header_texts)})
    IN  IF cell = None THEN <<>>
        ELSE Join(IF header_texts # {} THEN filtered ELSE lines, <<" ">>)
CleanTableCell(cell, header_texts) ==
    LET lines == StrippedNonBlank(SplitLines(cell))
        filtered == SelectIdx(lines, {i \in DOMAIN lines :
                                        ~IsHeaderFragment(lines[i], header_texts)})
    IN  IF cell = None THEN <<>>
        ELSE Join(IF header_texts # {} /\ filtered # <<>> THEN filtered ELSE lines,
                  <<" ">>)

\* cell.strip() is empty
IsBlank(cell) == Strip(cell) = <<>>

\* _clean_tables, "Clean all cells": empty rows are skipped
RECURSIVE CleanRows(_, _)
CleanRows(table, header_texts) ==
    IF table = <<>> THEN <<>>
    ELSE (IF table[1] = <<>> THEN <<>>
          ELSE <<[ci \in DOMAIN table[1] |-> CleanTableCell(table[1][ci], header_texts)]>>)
         \o CleanRows(Tail(table), header_texts)

\* the 1-based index of the last non-blank cell of a row, 0 when all are blank
LastUsed(row) ==
    LET used == {ci \in DOMAIN row : ~IsBlank(row[ci])}
    IN  IF used = {} THEN 0 ELSE CHOOSE ci \in used : \A k \in used : k <= ci

\* _clean_tables: max_used_cols
MaxUsedCols(cleaned) ==
    LET lasts == {LastUsed(cleaned[r]) : r \in DOMAIN cleaned} \cup {0}
    IN  CHOOSE m \in lasts : \A k \in lasts : k <= m

\* _clean_tables, "Merge continuation rows"
RECURSIVE MergeContinuationRows(_, _)
MergeContinuationRows(rows, merged) ==
    IF rows = <<>> THEN merged
    ELSE LET row == rows[1]
             n == Len(merged)
             is_continuation ==
                 /\ merged # <<>>
                 /\ IsBlank(row[1])
                 /\ (Len(row) < 2 \/ IsBlank(row[2]))
         IN  IF is_continuation
             THEN MergeContinuationRows(Tail(rows),
                     [merged EXCEPT ![n] =
                         [ci \in DOMAIN merged[n] |->
                             IF ci <= Len(row) /\ ~IsBlank(row[ci])
                             THEN Strip(merged[n][ci] \o <<" ">> \o row[ci])
                             ELSE merged[n][ci]]])
             ELSE MergeContinuationRows(Tail(rows), Append(merged, row))

\* _merge_sparse_columns: the column groups (start, end), 1-based inclusive,
\* one per non-empty header cell
SparseGroups(header_cols, num_cols) ==
    [k \in DOMAIN header_cols |->
        [start |-> IF k = 1 THEN 1 ELSE header_cols[k - 1] + 1,
         end |-> IF k = Len(header_cols) /\ header_cols[k] < num_cols
                 THEN num_cols ELSE header_cols[k]]]

\* list(dict.fromkeys(cells)): the first occurrence of each cell, in order
RECURSIVE FirstOccurrences(_)
FirstOccurrences(cells) ==
    IF cells = <<>> THEN <<>>
    ELSE LET front == Slice(cells, 1, Len(cells) - 1)
             last == cells[Len(cells)]
         IN  FirstOccurrences(front)
             \o (IF last \in Range(front) THEN <<>> ELSE <<last>>)

\* _merge_sparse_columns: the merged cell of one row and one group
MergeGroupCells(row, g) ==
    LET raw == [k \in 1..(Min(g.end, Len(row)) - g.start + 1) |->
                    Strip(row[g.start + k - 1])]
        cells == FirstOccurrences(SelectIdx(raw, {k \in DOMAIN raw : raw[k] # <<>>}))
        deduped == SelectIdx(cells,
                      {k \in DOMAIN cells :
                          ~\E o \in DOMAIN cells :
                              cells[k] # cells[o] /\ Contains(cells[o], cells[k])})
    IN  Join(deduped, <<" ">>)

\* the increasing sequence of the members of a set of numbers
RECURSIVE Ascending(_)
Ascending(S) ==
    IF S = {} THEN <<>>
    ELSE LET m == CHOOSE x \in S : \A y \in S : x <= y
         IN  <<m>> \o Ascending(S \ {m})

\* _merge_sparse_columns
MergeSparseColumns(table) ==
    IF Len(table) < 2 THEN table
    ELSE LET header == table[1]
             num_cols == Len(header)
             header_cols == Ascending({i \in DOMAIN header : ~IsBlank(header[i])})
             groups == SparseGroups(header_cols, num_cols)
         IN  IF Len(header_cols) >= num_cols \/ Len(header_cols) < 2 THEN table
             ELSE [r \in DOMAIN table |->
                      [k \in DOMAIN groups |-> MergeGroupCells(table[r], groups[k])]]

MinTableRows == 2
MinTableCols == 2

\* _clean_tables, the end of the loop body: only a table of at least two
\* rows is kept
KeepTableOfAnyLength(result) == result
KeepTable(result) == IF Len(result) >= MinTableRows THEN result ELSE <<>>

\* _clean_tables, "Filter out entirely empty rows" and the sparse-column merge
DropBlankRows(merged) ==
    SelectIdx(merged, {r \in DOMAIN merged :
                         \E ci \in DOMAIN merged[r] : ~IsBlank(merged[r][ci])})

\* _clean_tables, "Trim to used columns" and what follows
TrimAndMerge(cleaned, max_used_cols) ==
    IF max_used_cols < MinTableCols THEN <<>>
    ELSE KeepTable(MergeSparseColumns(DropBlankRows(MergeContinuationRows(
            [r \in DOMAIN cleaned |->
                Slice(cleaned[r], 1, Min(max_used_cols, Len(cleaned[r])))], <<>>))))

\* _clean_tables from the cleaned cells on
CleanCleaned(cleaned) == TrimAndMerge(cleaned, MaxUsedCols(cleaned))

\* _clean_tables, the body of the loop: the cleaned table, or <<>> when the
\* table is skipped
CleanOneTable(table, header_texts) ==
    IF table = <<>> THEN <<>> ELSE CleanCleaned(CleanRows(table, header_texts))

\* cleaned_tables.append((merged, bboxes[idx])); bbox is None when no
\* bounding boxes are passed
WithBbox(t, bboxes, idx) ==
    IF t = <<>> THEN <<>>
    ELSE <<[table |-> t, bbox |-> IF bboxes = None THEN None ELSE bboxes[idx]]>>

\* _clean_tables: the sequence of [table, bbox] it returns
RECURSIVE CleanTablesFrom(_, _, _, _)
CleanTablesFrom(tables, bboxes, idx, header_texts) ==
    IF idx > Len(tables) THEN <<>>
    ELSE WithBbox(CleanOneTable(tables[idx], header_texts), bboxes, idx)
         \o CleanTablesFrom(tables, bboxes, idx + 1, header_texts)

CleanTables(c, tables, bboxes) ==
    CleanTablesFrom(tables, bboxes, 1, {e[2] : e \in c.header_footer_entries})

\* the tables of a list returned by _clean_tables
TablesOf(cleaned) == [i \in DOMAIN cleaned |-> cleaned[i].table]

(***************************************************************************)
(* Page cleaning.  A page of the converter is a record                     *)
(*   text   : the lines of page.extract_text(layout=True)                  *)
(*   chars  : page.chars grouped by rounded top, a set of [top, text]      *)
(*   tables : the raw tables of page.find_tables()                         *)
(*   bboxes : their (top, bottom) pairs                                    *)
(***************************************************************************)

\* y_texts: the text at a rounded top of the page
YText(page, top_key) ==
    Collapse((CHOOSE g \in page.chars : g.top = top_key).text)

\* _get_header_line_indices, the inner loop: the first line with the header's
\* text that is not yet marked (1-based), 0 when there is none
FirstUnmarked(lines, header_text, header_indices) ==
    LET hits == {idx \in DOMAIN lines :
                    Collapse(Strip(lines[idx])) = header_text /\ idx \notin header_indices}
    IN  IF hits = {} THEN 0 ELSE CHOOSE idx \in hits : \A k \in hits : idx <= k

RECURSIVE MarkHeaderLines(_, _, _, _)
MarkHeaderLines(page, lines, y_positions, header_indices) ==
    IF y_positions = <<>> THEN header_indices
    ELSE LET header_text == YText(page, y_positions[1])
             idx == FirstUnmarked(lines, header_text, header_indices)
         IN  MarkHeaderLines(page, lines, Tail(y_positions),
                 IF header_text = <<>> \/ idx = 0 THEN header_indices
                 ELSE header_indices \cup {idx})

\* _get_header_line_indices: the (1-based) indices of the text lines taken
\* to be headers or footers
GetHeaderLineIndices(c, page) ==
    LET header_y_positions ==
            {g.top : g \in {h \in page.chars :
                              <<h.top, Collapse(h.text)>> \in c.header_footer_entries}}
    IN  IF page.chars = {} \/ Join(page.text, <<"\n">>) = <<>> THEN {}
        ELSE MarkHeaderLines(page, page.text, Ascending(header_y_positions), {})

YMergeGap == 3

\* _get_line_y_positions: the merged Y positions, whitespace-only groups left out
RECURSIVE MergedYPositions(_, _)
MergedYPositions(page, sorted_ys) ==
    IF sorted_ys = <<>> THEN <<>>
    ELSE LET group_start == sorted_ys[1]
             n == Cardinality({j \in DOMAIN sorted_ys :
                    \A k \in 1..j : sorted_ys[k] - group_start <= YMergeGap})
             in_group == {g \in page.chars : g.top \in Range(Slice(sorted_ys, 1, n))}
         IN  (IF \E g \in in_group : Strip(g.text) # <<>> THEN <<group_start>> ELSE <<>>)
             \o MergedYPositions(page, Slice(sorted_ys, n + 1, Len(sorted_ys)))

\* _get_line_y_positions, the sequential match
RECURSIVE MatchLineYs(_, _)
MatchLineYs(text_lines, ys) ==
    IF text_lines = <<>> THEN <<>>
    ELSE IF Strip(text_lines[1]) # <<>>
    THEN (IF ys # <<>> THEN <<ys[1]>> ELSE <<0>>)
         \o MatchLineYs(Tail(text_lines), IF ys # <<>> THEN Tail(ys) ELSE ys)
    ELSE <<-1>> \o MatchLineYs(Tail(text_lines), ys)

\* _get_line_y_positions
GetLineYPositions(page) ==
    IF page.chars = {} THEN [i \in DOMAIN page.text |-> 0]
    ELSE MatchLineYs(page.text,
                     MergedYPositions(page, Ascending({g.top : g \in page.chars})))

PageNumberMaxLen == 3

\* stripped.isdigit()
AllDigits(s) == s # <<>> /\ \A i \in DOMAIN s : IsDigit(s[i])

\* _clean_page_text: [lines, lines_y]
RECURSIVE CleanPageTextFrom(_, _, _, _, _, _)
CleanPageTextFrom(lines, idx, header_indices, all_line_y, acc, prev_blank) ==
    IF idx > Len(lines) THEN acc
    ELSE LET stripped == Strip(lines[idx])
             n == Len(acc.lines)
         IN  IF idx \in header_indices
                \/ (AllDigits(stripped) /\ Len(stripped) <= PageNumberMaxLen)
             THEN CleanPageTextFrom(lines, idx + 1, header_indices, all_line_y,
                                    acc, prev_blank)
             ELSE IF stripped = <<>>
             THEN (IF ~prev_blank /\ n > 0
                   THEN CleanPageTextFrom(lines, idx + 1, header_indices, all_line_y,
                            [lines |-> Append(acc.lines, <<>>),
                             lines_y |-> Append(acc.lines_y, acc.lines_y[n])], TRUE)
                   ELSE CleanPageTextFrom(lines, idx + 1, header_indices, all_line_y,
                            acc, prev_blank))
             ELSE CleanPageTextFrom(lines, idx + 1, header_indices, all_line_y,
                      [lines |-> Append(acc.lines, lines[idx]),
                       lines_y |-> Append(acc.lines_y,
                                      IF idx <= Len(all_line_y) THEN all_line_y[idx] ELSE 0)],
                      FALSE)

CleanPageText(lines, header_indices, all_line_y) ==
    CleanPageTextFrom(lines, 1, header_indices, all_line_y,
                      [lines |-> <<>>, lines_y |-> <<>>], FALSE)

\* _normalize_title
NormalizeTitle(text) == Collapse(Lower(Strip(StripChars(text, {":"}))))

\* _find_own_section_start: how many leading lines to drop (the title line
\* included), 0 when the title is on no line; in the code's 0-based terms
\* this number is the index of the first line kept
FindOwnSectionStart(c, lines) ==
    LET own_normalized == NormalizeTitle(c.section_title)
        hits == {idx \in DOMAIN lines : NormalizeTitle(Strip(lines[idx])) = own_normalized}
    IN  IF hits = {} THEN 0 ELSE CHOOSE idx \in hits : \A k \in hits : idx <= k

\* _is_sub_title
IsSubTitle(c, text) ==
    /\ text # <<>>
    /\ \E sub \in c.sub_titles : NormalizeTitle(text) = NormalizeTitle(sub)

HeadingMaxLen == 60
HeadingMaxWords == 8
HeadingMaxSentenceWords == 4

SentenceStarters ==
    {<<"t","o">>, <<"t","h","e">>, <<"a">>, <<"a","n">>, <<"i","f">>,
     <<"w","h","e","n">>, <<"a","s">>, <<"f","o","r">>, <<"d","u","e">>,
     <<"i","n">>, <<"o","n">>, <<"b","y">>}
SentenceVerbs ==
    {<<"w","i","l","l">>, <<"h","a","v","e">>, <<"h","a","s">>, <<"b","e","e","n">>,
     <<"b","e","i","n","g">>, <<"a","r","e">>, <<"i","s">>, <<"w","a","s">>,
     <<"w","e","r","e">>}

\* _is_heading
IsHeading(c, text) ==
    LET words == SplitWords(text)
        text_lower == Lower(text)
        text_core == RStripChars(text, {".", ",", ":", ";"})
    IN  /\ text # <<>>
        /\ Len(text) <= HeadingMaxLen
        /\ Lower(StripChars(text, {":"})) # Lower(StripChars(c.section_title, {":"}))
        /\ IsUpper(text[1])
        /\ Len(words) <= HeadingMaxWords
        /\ ~Contains(text, <<",">>)
        /\ Lower(words[1]) \notin SentenceStarters
        /\ \A verb \in SentenceVerbs :
              /\ ~Contains(text_lower, <<" ">> \o verb \o <<" ">>)
              /\ ~EndsWith(text_lower, <<" ">> \o verb)
        /\ ~(EndsWith(text, <<".">>) /\ Len(words) > HeadingMaxSentenceWords)
        /\ ~Contains(text_core, <<".">>)

NextTitleMaxExtra == 20
NextTitleMinContained == 10

\* _is_next_section_title, the tests against one other section's title
MatchesSectionTitle(text_normalized, section_normalized) ==
    \/ text_normalized = section_normalized
    \/ RStripChars(text_normalized, {":", "."})
          = RStripChars(section_normalized, {":", "."})
    \/ /\ StartsWith(text_normalized, section_normalized)
       /\ Len(text_normalized) < Len(section_normalized) + NextTitleMaxExtra
    \/ /\ Contains(text_normalized, section_normalized)
       /\ Len(section_normalized) > NextTitleMinContained

\* _is_next_section_title, the loop over the sections: the own title is
\* skipped
MatchesOtherSection(c, text_normalized, own_normalized) ==
    \E i \in DOMAIN c.all_sections :
       /\ Lower(Strip(StripChars(c.all_sections[i].title, {":"}))) # own_normalized
       /\ MatchesSectionTitle(text_normalized,
             Collapse(Lower(Strip(StripChars(c.all_sections[i].title, {":"})))))

\* _is_next_section_title
IsNextSectionTitle(c, text) ==
    /\ text # <<>>
    /\ MatchesOtherSection(c, Collapse(Lower(Strip(StripChars(text, {":"})))),
                           Collapse(Lower(Strip(StripChars(c.section_title, {":"})))))

(***************************************************************************)
(* The list and paragraph parsers.  Line numbers are 1-based; a parser     *)
(* returns the number of the first line it did not consume.                *)
(***************************************************************************)

\* re.match(r'^(\d+)\.\s*(.*)$', s)
NumberMatch(s) ==
    LET k == LeadIn(s, Range(DigitSeq))
    IN  IF k >= 1 /\ Len(s) > k /\ s[k + 1] = "."
        THEN [ok |-> TRUE, marker |-> Slice(s, 1, k), text |-> LStrip(Slice(s, k + 2, Len(s)))]
        ELSE [ok |-> FALSE, marker |-> <<>>, text |-> <<>>]

\* re.match(r'^\d+\.\s*', s)
NumberPrefix(s) ==
    LET k == LeadIn(s, Range(DigitSeq))
    IN  k >= 1 /\ Len(s) > k /\ s[k + 1] = "."

\* re.match(r'^([a-z])\.\s*(.*)$', s)
LetterMatch(s) ==
    IF Len(s) >= 2 /\ IsLower(s[1]) /\ s[2] = "."
    THEN [ok |-> TRUE, marker |-> <<s[1]>>, text |-> LStrip(Slice(s, 3, Len(s)))]
    ELSE [ok |-> FALSE, marker |-> <<>>, text |-> <<>>]

\* _ROMAN_NUMERALS
RomanNumerals ==
    {<<"i">>, <<"i","i">>, <<"i","i","i">>, <<"i","v">>, <<"v">>, <<"v","i">>,
     <<"v","i","i">>, <<"v","i","i","i">>, <<"i","x">>, <<"x">>, <<"x","i">>,
     <<"x","i","i">>, <<"x","i","i","i">>, <<"x","i","v">>, <<"x","v">>,
     <<"x","v","i">>, <<"x","v","i","i">>, <<"x","v","i","i","i">>,
     <<"x","i","x">>, <<"x","x">>}

\* re.match(r'^([a-z]+)\.\s*(.*)$', s) with group 1 a Roman numeral
RomanMatch(s) ==
    LET k == LeadIn(s, Range(LowerSeq))
    IN  IF k >= 1 /\ Len(s) > k /\ s[k + 1] = "." /\ Slice(s, 1, k) \in RomanNumerals
        THEN [ok |-> TRUE, marker |-> Slice(s, 1, k), text |-> LStrip(Slice(s, k + 2, Len(s)))]
        ELSE [ok |-> FALSE, marker |-> <<>>, text |-> <<>>]

SubIndent == 4
SubSubIndent == 9
SubNumberIndent == 14

\* the text of the last sub-item extended by one more line
ExtendLast(sub_items, more) ==
    [sub_items EXCEPT ![Len(sub_items)].text = @ \o <<" ">> \o more]

\* _parse_bullet, the loop
RECURSIVE BulletLoop(_, _, _, _, _)
BulletLoop(c, lines, j, base_indent, st) ==
    IF j > Len(lines) THEN [st EXCEPT !.j = j]
    ELSE LET next_stripped == Strip(lines[j])
             next_indent == IndentOf(lines[j])
             next_normalized == Collapse(next_stripped)
             subs == st.sub_items
             last_level == IF subs = <<>> THEN 0 ELSE subs[Len(subs)].level
         IN  IF next_stripped = <<>>
             THEN BulletLoop(c, lines, j + 1, base_indent, st)
             ELSE IF \/ IsNextSectionTitle(c, next_normalized)
                     \/ IsSubTitle(c, next_normalized)
                     \/ next_stripped[1] = BULLET
             THEN [st EXCEPT !.j = j]
             ELSE IF next_stripped = <<"o">> \/ next_stripped = <<SUBSUB>>
             THEN BulletLoop(c, lines, j + 1, base_indent, [st EXCEPT !.skip = TRUE])
             ELSE IF next_stripped[1] = SUBSUB /\ Len(next_stripped) > 1
             THEN LET text == Strip(Tail(next_stripped))
                  IN  BulletLoop(c, lines, j + 1, base_indent,
                        [st EXCEPT !.skip = FALSE,
                                   !.sub_items = IF text # <<>>
                                                 THEN Append(subs, [level |-> 2, text |-> text])
                                                 ELSE subs])
             ELSE IF next_indent >= base_indent + SubSubIndent
             THEN BulletLoop(c, lines, j + 1, base_indent,
                        [st EXCEPT !.skip = FALSE,
                                   !.sub_items = IF last_level = 2
                                                 THEN ExtendLast(subs, next_stripped)
                                                 ELSE Append(subs, [level |-> 1,
                                                                    text |-> next_stripped])])
             ELSE IF next_indent >= base_indent + SubIndent
             THEN BulletLoop(c, lines, j + 1, base_indent,
                        [st EXCEPT !.skip = FALSE,
                                   !.sub_items = IF st.skip /\ last_level = 1
                                                 THEN ExtendLast(subs, next_stripped)
                                                 ELSE Append(subs, [level |-> 1,
                                                                    text |-> next_stripped])])
             ELSE IF next_indent >= base_indent /\ subs = <<>>
             THEN BulletLoop(c, lines, j + 1, base_indent,
                        [st EXCEPT !.skip = FALSE,
                                   !.text = @ \o <<" ">> \o next_stripped])
             ELSE [st EXCEPT !.j = j]

\* _parse_bullet, the return statement
BulletResult(st) == [text |-> Strip(st.text), sub_items |-> st.sub_items, j |-> st.j]

\* _parse_bullet: [text, sub_items, j]
ParseBullet(c, lines, start, base_indent) ==
    BulletResult(BulletLoop(c, lines, start + 1, base_indent,
                            [text |-> Strip(Tail(Strip(lines[start]))), sub_items |-> <<>>,
                             skip |-> FALSE, j |-> start + 1]))

\* _parse_numbered, the classification of an indent into a nesting level
NumberedLevelAbsolute(next_indent, base_indent) ==
    IF next_indent >= SubNumberIndent THEN 3
    ELSE IF next_indent >= SubSubIndent THEN 2
    ELSE IF next_indent >= SubIndent THEN 1
    ELSE 0
NumberedLevel(next_indent, base_indent) ==
    IF next_indent >= base_indent + SubNumberIndent THEN 3
    ELSE IF next_indent >= base_indent + SubSubIndent THEN 2
    ELSE IF next_indent >= base_indent + SubIndent THEN 1
    ELSE 0

\* the marker match appropriate for a level
LevelMatchNumberOnly(level, s) == NumberMatch(s)
LevelMatch(level, s) ==
    IF level = 1 THEN LetterMatch(s)
    ELSE IF level = 2 THEN RomanMatch(s)
    ELSE NumberMatch(s)

\* the deepest active item at or above a level: its place in sub_items,
\* 0 when the text belongs to the top-level item
ContinuationTargetTopLevel(current_at, level) == 0
ContinuationTarget(current_at, level) ==
    LET active == {t \in 1..level : current_at[t] # 0}
    IN  IF active = {} THEN 0
        ELSE current_at[CHOOSE t \in active : \A u \in active : u <= t]

\* _parse_numbered, the loop
RECURSIVE NumberedLoop(_, _, _, _, _)
NumberedLoop(c, lines, j, base_indent, st) ==
    IF j > Len(lines) THEN [st EXCEPT !.j = j]
    ELSE LET next_stripped == Strip(lines[j])
             next_indent == IndentOf(lines[j])
             next_normalized == Collapse(next_stripped)
             level == NumberedLevel(next_indent, base_indent)
             m == LevelMatch(level, next_stripped)
             target == ContinuationTarget(st.current_at, level)
         IN  IF next_stripped = <<>>
             THEN NumberedLoop(c, lines, j + 1, base_indent, st)
             ELSE IF \/ IsNextSectionTitle(c, next_normalized)
                     \/ IsSubTitle(c, next_normalized)
                     \/ next_stripped[1] = BULLET
             THEN [st EXCEPT !.j = j]
             ELSE IF level = 0
             THEN (IF /\ ~NumberPrefix(next_stripped)
                      /\ st.sub_items = <<>>
                      /\ next_indent >= base_indent
                   THEN NumberedLoop(c, lines, j + 1, base_indent,
                            [st EXCEPT !.text = @ \o <<" ">> \o next_stripped])
                   ELSE [st EXCEPT !.j = j])
             ELSE IF m.ok
             THEN NumberedLoop(c, lines, j + 1, base_indent,
                      [st EXCEPT
                         !.sub_items = Append(@, [level |-> level, marker |-> m.marker,
                                                  text |-> m.text]),
                         !.current_at = [t \in 1..3 |->
                                            IF t = level THEN Len(st.sub_items) + 1
                                            ELSE IF t > level THEN 0
                                            ELSE @[t]]])
             ELSE IF target >= 1
             THEN NumberedLoop(c, lines, j + 1, base_indent,
                      [st EXCEPT !.sub_items[target].text = @ \o <<" ">> \o next_stripped])
             ELSE NumberedLoop(c, lines, j + 1, base_indent,
                      [st EXCEPT !.text = @ \o <<" ">> \o next_stripped])

\* _parse_numbered, "Trim whitespace" and the return statement
NumberedResult(st) ==
    [text |-> Strip(st.text),
     sub_items |-> [k \in DOMAIN st.sub_items |->
                      [st.sub_items[k] EXCEPT !.text = Strip(@)]],
     j |-> st.j]

\* _parse_numbered, the text the item starts with
NumberedStart(m, start_as_sub) == IF start_as_sub \/ ~m.ok THEN <<>> ELSE m.text

\* _parse_numbered: [text, sub_items, j]
ParseNumbered(c, lines, start, base_indent, start_as_sub) ==
    NumberedResult(
        NumberedLoop(c, lines, IF start_as_sub THEN start ELSE start + 1, base_indent,
            [text |-> NumberedStart(NumberMatch(Strip(lines[start])), start_as_sub),
             sub_items |-> <<>>, current_at |-> [t \in 1..3 |-> 0], j |-> start]))

TableTextMinLen == 3
TableCellMinLen == 10
TableLineMinLen == 5

\* _get_table_text_content
GetTableTextContent(tables) ==
    LET cells == UNION {UNION {Range(row) : row \in Range(table)} : table \in Range(tables)}
    IN  {text \in {Collapse(cell) : cell \in cells} : Len(text) > TableTextMinLen}

\* _is_table_text
IsTableText(text, table_content) ==
    LET normalized == Collapse(text)
    IN  \/ normalized \in table_content
        \/ \E tc \in table_content :
              /\ Len(tc) > TableCellMinLen
              /\ \/ Contains(normalized, tc)
                 \/ Len(normalized) > TableLineMinLen /\ Contains(tc, normalized)

\* the lines that follow line j up to the next non-blank one: its number,
\* Len(lines) + 1 when every later line is blank
NextNonBlank(lines, j) ==
    LET later == {k \in (j + 1)..Len(lines) : Strip(lines[k]) # <<>>}
    IN  IF later = {} THEN Len(lines) + 1
        ELSE CHOOSE k \in later : \A u \in later : k <= u

ParagraphIndentSpan == 10

\* _parse_paragraph, the loop
RECURSIVE ParagraphLoop(_, _, _, _, _, _)
ParagraphLoop(c, lines, j, base_indent, table_content, para_text) ==
    IF j > Len(lines) THEN [text |-> para_text, j |-> j]
    ELSE LET next_stripped == Strip(lines[j])
             next_indent == IndentOf(lines[j])
             next_normalized == Collapse(next_stripped)
             k == NextNonBlank(lines, j)
         IN  IF next_stripped = <<>>
             THEN (IF k <= Len(lines) /\ IsLower(Strip(lines[k])[1])
                   THEN ParagraphLoop(c, lines, k, base_indent, table_content, para_text)
                   ELSE [text |-> para_text, j |-> j])
             ELSE IF \/ IsNextSectionTitle(c, next_normalized)
                     \/ IsSubTitle(c, next_normalized)
             THEN [text |-> para_text, j |-> j]
             ELSE IF IsTableText(next_stripped, table_content)
             THEN ParagraphLoop(c, lines, j + 1, base_indent, table_content, para_text)
             ELSE IF \/ IsHeading(c, next_normalized)
                     \/ next_stripped[1] = BULLET
                     \/ NumberPrefix(next_stripped)
                     \/ LetterMatch(next_stripped).ok
             THEN [text |-> para_text, j |-> j]
             ELSE IF next_indent - base_indent < ParagraphIndentSpan
                     /\ base_indent - next_indent < ParagraphIndentSpan
             THEN ParagraphLoop(c, lines, j + 1, base_indent, table_content,
                                para_text \o <<" ">> \o next_stripped)
             ELSE [text |-> para_text, j |-> j]

\* _parse_paragraph: [text, j]
ParseParagraph(c, lines, start, base_indent, table_content) ==
    ParagraphLoop(c, lines, start + 1, base_indent, table_content, Strip(lines[start]))

\* _table_to_markdown, one row
MarkdownRow(cells) == <<"|", " ">> \o Join(cells, <<" ", "|", " ">>) \o <<" ", "|">>

\* _table_to_markdown
TableToMarkdown(table) ==
    LET max_cols == IF table = <<>> THEN 0
                    ELSE CHOOSE n \in {Len(table[r]) : r \in DOMAIN table} :
                            \A r \in DOMAIN table : Len(table[r]) <= n
        padded == [r \in DOMAIN table |->
                     [k \in 1..max_cols |-> IF k <= Len(table[r]) THEN table[r][k] ELSE <<>>]]
        rule == [k \in 1..max_cols |-> <<"-", "-", "-">>]
    IN  IF Len(table) < MinTableRows THEN <<>>
        ELSE Join(<<MarkdownRow(padded[1]), MarkdownRow(rule)>>
                  \o [r \in 1..(Len(table) - 1) |-> MarkdownRow(padded[r + 1])], <<"\n">>)

(***************************************************************************)
(* _process_page.  A content item is a record [type, level, marker, text,  *)
(* y]; level and marker are None for the items that have none.             *)
(***************************************************************************)
Item(type, level, marker, text, y) ==
    [type |-> type, level |-> level, marker |-> marker, text |-> text, y |-> y]

BulletItems(b, y) ==
    <<Item("bullet", 0, None, b.text, y)>>
    \o [k \in DOMAIN b.sub_items |->
          Item("bullet", b.sub_items[k].level, None, b.sub_items[k].text, y)]

SubNumberedItems(n, y) ==
    [k \in DOMAIN n.sub_items |->
       Item("numbered", n.sub_items[k].level, n.sub_items[k].marker, n.sub_items[k].text, y)]

BaseGuess == 5
BaseLookAhead == 30

\* the base indent taken for a lettered sub-item that has no numbered item
\* above it on the page
EffectiveBaseRightOfLine(lines, i, indent) == indent + 1
EffectiveBase(lines, i, indent) ==
    LET ahead == {k \in (i + 1)..Min(i + BaseLookAhead - 1, Len(lines)) :
                     /\ Strip(lines[k]) # <<>>
                     /\ NumberPrefix(Strip(lines[k]))
                     /\ IndentOf(lines[k]) < indent}
    IN  IF ahead = {} THEN indent - BaseGuess
        ELSE IndentOf(lines[CHOOSE k \in ahead : \A u \in ahead : k <= u])

\* a lettered line is taken as a continued sub-item
IsContinuedSubItemAtAnyIndent(stripped, indent) == LetterMatch(stripped).ok
IsContinuedSubItem(stripped, indent) == LetterMatch(stripped).ok /\ indent > 0

\* a line swallowed because it belongs to a table: the first one fixes
\* where the tables go
SwallowTableLineKeepingLast(st, item_y) ==
    [st EXCEPT !.table_insert_pos = <<Len(st.result)>>, !.table_insert_y = <<item_y>>]
SwallowTableLine(st, item_y) ==
    IF st.table_insert_pos = None
    THEN [st EXCEPT !.table_insert_pos = <<Len(st.result)>>,
                    !.table_insert_y = <<item_y>>]
    ELSE st

\* the line belongs to a cleaned table, by its text or by its position
InTable(tc, normalized, item_y) ==
    /\ tc.cleaned_tables # <<>>
    /\ \/ IsTableText(normalized, tc.table_content)
       \/ \E k \in DOMAIN tc.table_bboxes :
             /\ tc.table_bboxes[k][1] <= item_y
             /\ item_y <= tc.table_bboxes[k][2]

\* the while loop of _process_page over the cleaned lines; tc holds
\* cleaned_tables, table_content and table_bboxes.  WalkLines is the loop
\* test, WalkLine the body of the loop on line i, and the After operators
\* are what follows each parser's return.
RECURSIVE WalkLines(_, _, _, _, _, _)
RECURSIVE WalkLine(_, _, _, _, _, _, _, _, _, _)
RECURSIVE AfterBullet(_, _, _, _, _, _, _)
RECURSIVE AfterNumbered(_, _, _, _, _, _, _, _)
RECURSIVE AfterSubItems(_, _, _, _, _, _, _)
RECURSIVE AfterParagraph(_, _, _, _, _, _, _)

AfterBullet(c, tc, lines, lines_y, st, b, item_y) ==
    WalkLines(c, tc, lines, lines_y, b.j,
              [st EXCEPT !.result = @ \o BulletItems(b, item_y)])

AfterNumbered(c, tc, lines, lines_y, st, n, marker, item_y) ==
    WalkLines(c, tc, lines, lines_y, n.j,
              [st EXCEPT !.result = Append(@, Item("numbered", 0, marker, n.text, item_y))
                                    \o SubNumberedItems(n, item_y)])

AfterSubItems(c, tc, lines, lines_y, st, s, item_y) ==
    WalkLines(c, tc, lines, lines_y, s.j,
              [st EXCEPT !.result = @ \o SubNumberedItems(s, item_y)])

AfterParagraph(c, tc, lines, lines_y, st, p, item_y) ==
    WalkLines(c, tc, lines, lines_y, p.j,
              IF Strip(p.text) # <<>>
              THEN [st EXCEPT !.result =
                      Append(@, Item("paragraph", None, None,
                                     ApplyHyperlinks(c, p.text), item_y))]
              ELSE st)

WalkLine(c, tc, lines, lines_y, i, st, stripped, indent, normalized, item_y) ==
    IF stripped = <<>> THEN WalkLines(c, tc, lines, lines_y, i + 1, st)
    ELSE IF IsNextSectionTitle(c, normalized)
    THEN [st EXCEPT !.stop_y = <<item_y>>]
    ELSE IF IsSubTitle(c, normalized)
    THEN WalkLines(c, tc, lines, lines_y, i + 1,
           [st EXCEPT !.result = Append(@, Item("heading", 2, None, normalized, item_y))])
    ELSE IF stripped[1] = BULLET
    THEN AfterBullet(c, tc, lines, lines_y, st, ParseBullet(c, lines, i, indent), item_y)
    ELSE IF NumberMatch(stripped).ok
    THEN AfterNumbered(c, tc, lines, lines_y, st, ParseNumbered(c, lines, i, indent, FALSE),
                       NumberMatch(stripped).marker, item_y)
    ELSE IF IsContinuedSubItem(stripped, indent)
    THEN AfterSubItems(c, tc, lines, lines_y, st,
                       ParseNumbered(c, lines, i, EffectiveBase(lines, i, indent), TRUE),
                       item_y)
    ELSE IF InTable(tc, normalized, item_y)
    THEN WalkLines(c, tc, lines, lines_y, i + 1, SwallowTableLine(st, item_y))
    ELSE IF IsHeading(c, normalized)
    THEN WalkLines(c, tc, lines, lines_y, i + 1,
           [st EXCEPT !.result = Append(@, Item("heading", 3, None, normalized, item_y))])
    ELSE AfterParagraph(c, tc, lines, lines_y, st,
                        ParseParagraph(c, lines, i, indent,
                            IF tc.cleaned_tables # <<>> THEN tc.table_content ELSE {}),
                        item_y)

WalkLines(c, tc, lines, lines_y, i, st) ==
    IF i > Len(lines) THEN st
    ELSE WalkLine(c, tc, lines, lines_y, i, st, Strip(lines[i]), IndentOf(lines[i]),
                  Collapse(Strip(lines[i])),
                  IF i <= Len(lines_y) THEN lines_y[i] ELSE 0)

\* result.insert(pos, x)
InsertAt(seq, pos, x) ==
    LET at == Min(pos, Len(seq))
    IN  Slice(seq, 1, at) \o <<x>> \o Slice(seq, at + 1, Len(seq))

\* the last loop of _process_page: the cleaned tables go where the first
\* table line was swallowed, else to the end of the page
RECURSIVE InsertTables(_, _, _)
InsertTables(with_bbox, k, st) ==
    IF k > Len(with_bbox) THEN st
    ELSE LET md_table == TableToMarkdown(with_bbox[k].table)
             ty0 == with_bbox[k].bbox[1]
         IN  IF (st.stop_y # None /\ ty0 >= st.stop_y[1])
                \/ Len(with_bbox[k].table) < MinTableRows
                \/ md_table = <<>>
             THEN InsertTables(with_bbox, k + 1, st)
             ELSE IF st.table_insert_pos # None
             THEN InsertTables(with_bbox, k + 1,
                    [st EXCEPT !.result = InsertAt(@, st.table_insert_pos[1],
                                             Item("table", None, None, md_table,
                                                  st.table_insert_y[1])),
                               !.table_insert_pos = <<@[1] + 1>>])
             ELSE InsertTables(with_bbox, k + 1,
                    [st EXCEPT !.result = Append(@, Item("table", None, None, md_table, 0))])

\* what _process_page returns once the lines are walked and the tables
\* inserted, with _content_started as it leaves it and the lines it walked
PageResult(st, lines) ==
    [items |-> st.result, stop_y |-> st.stop_y, content_started |-> TRUE, lines |-> lines]

\* cleaned_tables, table_content and table_bboxes
TableContext(cleaned_tables, table_bboxes) ==
    [cleaned_tables |-> cleaned_tables,
     table_content |-> GetTableTextContent(cleaned_tables),
     table_bboxes |-> table_bboxes]

\* _process_page from the walk on: the lines that are left once the page
\* is cleaned and the part before the section's title is dropped
ProcessLines(c, page, with_bbox, lines, lines_y) ==
    PageResult(InsertTables(with_bbox, 1,
                  WalkLines(c, TableContext(TablesOf(with_bbox), page.bboxes),
                            lines, lines_y, 1,
                            [result |-> <<>>, table_insert_pos |-> None,
                             table_insert_y |-> None, stop_y |-> None])),
               lines)

\* _process_page from the title search on: a page met before the section
\* has started is cut at the title, or skipped when start_idx is negative
ProcessCleaned(c, page, with_bbox, cleaned, start_idx) ==
    IF ~c.content_started /\ ~(start_idx >= 0)
    THEN [items |-> <<>>, stop_y |-> None, content_started |-> FALSE, lines |-> <<>>]
    ELSE ProcessLines(c, page, with_bbox,
            Slice(cleaned.lines, (IF c.content_started THEN 0 ELSE start_idx) + 1,
                  Len(cleaned.lines)),
            Slice(cleaned.lines_y, (IF c.content_started THEN 0 ELSE start_idx) + 1,
                  Len(cleaned.lines_y)))

\* _process_page: the items and stop_y it returns, with _content_started as
\* it leaves it and the lines it walked
ProcessFound(c, page, with_bbox, cleaned) ==
    ProcessCleaned(c, page, with_bbox, cleaned, FindOwnSectionStart(c, cleaned.lines))

ProcessPage(c, page) ==
    IF Join(page.text, <<"\n">>) = <<>>
    THEN [items |-> <<>>, stop_y |-> None, content_started |-> c.content_started,
          lines |-> <<>>]
    ELSE ProcessFound(c, page, CleanTables(c, page.tables, page.bboxes),
                      CleanPageText(page.text, GetHeaderLineIndices(c, page),
                                    GetLineYPositions(page)))

(***************************************************************************)
(* MarkdownConverter.convert: the images of a page are merged into what    *)
(* _process_page returned for it.  An image is a record [page_num, y,      *)
(* saved_path]; saved_path is None for an image that was not saved.        *)
(***************************************************************************)
\* sorted(..., key=lambda img: img.y): a stable insertion of one image
RECURSIVE InsertByY(_, _)
InsertByY(sorted, img) ==
    IF sorted = <<>> THEN <<img>>
    ELSE IF sorted[Len(sorted)].y <= img.y THEN Append(sorted, img)
    ELSE Append(InsertByY(Slice(sorted, 1, Len(sorted) - 1), img), sorted[Len(sorted)])

RECURSIVE SortByY(_)
SortByYAsGiven(imgs) == imgs
SortByY(imgs) ==
    IF imgs = <<>> THEN <<>>
    ELSE InsertByY(SortByY(Slice(imgs, 1, Len(imgs) - 1)), imgs[Len(imgs)])

\* the images of the page that were saved, in Y order; with a stop_y only
\* those above it
PageImagesBelowStopToo(c, page_num, stop_y) ==
    SortByY(SelectIdx(c.images,
              {k \in DOMAIN c.images :
                 /\ c.images[k].page_num = page_num
                 /\ c.images[k].saved_path # None}))
PageImages(c, page_num, stop_y) ==
    SortByY(SelectIdx(c.images,
              {k \in DOMAIN c.images :
                 /\ c.images[k].page_num = page_num
                 /\ c.images[k].saved_path # None
                 /\ (stop_y # None => c.images[k].y < stop_y[1])}))

\* str(n) for a natural number
RECURSIVE ToDigits(_)
ToDigits(n) == IF n < 10 THEN <<DigitSeq[n + 1]>>
               ELSE Append(ToDigits(n \div 10), DigitSeq[(n % 10) + 1])

\* Path(image_path).name
RECURSIVE BaseName(_)
BaseName(path) ==
    IF FindFirst(path, <<"/">>) = 0 THEN path
    ELSE BaseName(Slice(path, FindFirst(path, <<"/">>) + 1, Len(path)))

ImageDir == <<".",".","/","a","s","s","e","t","s","/","i","m","a","g","e","s","/">>
ImageAlt == <<"I","m","a","g","e"," ","f","r","o","m"," ","p","a","g","e"," ">>

\* the item appended for an image
ImageItem(img, page_num) ==
    [type |-> "image", path |-> ImageDir \o BaseName(img.saved_path),
     alt |-> ImageAlt \o ToDigits(page_num + 1)]

\* the images above the next item, and after the last item all that are left
RECURSIVE MergeImages(_, _, _, _)
MergeImages(page_content, k, page_images, page_num) ==
    IF page_images # <<>> /\ (k > Len(page_content) \/ page_images[1].y < page_content[k].y)
    THEN <<ImageItem(page_images[1], page_num)>>
         \o MergeImages(page_content, k, Tail(page_images), page_num)
    ELSE IF k > Len(page_content) THEN <<>>
    ELSE <<page_content[k]>> \o MergeImages(page_content, k + 1, page_images, page_num)

(***************************************************************************)
(* MarkdownConverter._format_to_markdown                                   *)
(***************************************************************************)
\* the concatenation of a sequence of sequences
RECURSIVE Flatten(_)
Flatten(seqs) == IF seqs = <<>> THEN <<>> ELSE seqs[1] \o Flatten(Tail(seqs))

\* n copies of a text
RECURSIVE Repeat(_, _)
Repeat(text, n) == IF n <= 0 THEN <<>> ELSE text \o Repeat(text, n - 1)

\* the entry of md_lines an item gives, as a sequence of at most one text
MarkdownOf(item) ==
    IF item.type = "heading"
    THEN <<(<<"\n">> \o Repeat(<<"#">>, item.level) \o <<" ">> \o item.text \o <<"\n">>)>>
    ELSE IF item.type = "bullet"
    THEN <<(Repeat(<<" ", " ">>, item.level) \o <<"-", " ">> \o item.text)>>
    ELSE IF item.type = "numbered"
    THEN <<(Repeat(<<" ", " ">>, item.level) \o item.marker \o <<".", " ">> \o item.text)>>
    ELSE IF item.type \in {"paragraph", "table"}
    THEN <<(<<"\n">> \o item.text \o <<"\n">>)>>
    ELSE IF item.type = "image"
    THEN <<(<<"\n", "!", "[">> \o item.alt \o <<"]", "(">> \o item.path \o <<")", "\n">>)>>
    ELSE <<>>

\* md_lines
RECURSIVE MarkdownLines(_, _)
MarkdownLines(content_items, k) ==
    IF k > Len(content_items) THEN <<>>
    ELSE MarkdownOf(content_items[k]) \o MarkdownLines(content_items, k + 1)

NewlineRun == 3

\* re.sub(r'\n{3,}', '\n\n', s) leaves out character i of s: a newline
\* that has two newlines or more right before it
IsExtraNewlineAfterThree(s, i) ==
    /\ s[i] = "\n"
    /\ i > NewlineRun
    /\ \A d \in 1..NewlineRun : s[i - d] = "\n"
IsExtraNewline(s, i) ==
    /\ s[i] = "\n"
    /\ i > NewlineRun - 1
    /\ \A d \in 1..(NewlineRun - 1) : s[i - d] = "\n"

\* re.sub(r'\n{3,}', '\n\n', s)
SqueezeNewlines(s) == SelectIdx(s, {i \in DOMAIN s : ~IsExtraNewline(s, i)})

\* _format_to_markdown
FormatToMarkdown(c, content_items) ==
    SqueezeNewlines(Join(<<(<<"#", " ">> \o c.section_title \o <<"\n">>)>>
                         \o MarkdownLines(content_items, 1), <<"\n">>))

(***************************************************************************)
(* The documents the detector is run on                                    *)
(***************************************************************************)
MaxPages == 3
MaxTocLines == 2

Spaces(n) == [i \in 1..n |-> " "]

TitleIntro == <<"I","n","t","r","o">>
TitleScope == <<"S","c","o","p","e">>
TitleShort == <<"A","b">>
TextBody == <<"b","o","d","y"," ","t","e","x","t">>
TextHeader == <<"A","c","m","e"," ","C","o","r","p">>

\* a line of a contents page: indent, title, dot leader, page number
TocLine(indent, title, num) == Spaces(indent) \o title \o <<" ">> \o Dots3 \o num

\* no page number, page "0" (a negative target), an inner page, a page past
\* the end; an indented entry; an entry whose title is too short to count
TocLinePool ==
    {TocLine(0, TitleIntro, num) : num \in {<<>>, <<"0">>, <<"3">>, <<"9">>}}
    \cup {TocLine(2, TitleScope, <<"2">>), TocLine(0, TitleShort, <<"1">>)}

RECURSIVE SeqsUpTo(_, _)
SeqsUpTo(S, n) ==
    IF n = 0 THEN {<<>>}
    ELSE LET shorter == SeqsUpTo(S, n - 1)
         IN  shorter \cup {Append(q, x) : q \in {r \in shorter : Len(r) = n - 1}, x \in S}

\* what page.chars holds on a page of each kind
CharsOfKind(kind) ==
    CASE kind = "body" -> {[top |-> 100, text |-> TextBody, size |-> 10]}
      [] kind = "head" -> {[top |-> 10, text |-> TextHeader, size |-> 16],
                           [top |-> 50, text |-> TitleScope, size |-> 16]}
      [] kind = "hdr"  -> {[top |-> 10, text |-> TextHeader, size |-> 16],
                           [top |-> 100, text |-> TextBody, size |-> 10]}

PageKinds == {"body", "head", "hdr"}

\* a document: its contents lines are on the first page
MakePdf(toc_lines, kinds) ==
    [i \in DOMAIN kinds |->
        [text |-> IF i = 1 THEN toc_lines ELSE <<>>, chars |-> CharsOfKind(kinds[i])]]

NewDetector ==
    [toc_pages |-> {}, header_footer_entries |-> {}, sub_titles |-> {},
     toc_entries |-> <<>>, path |-> "none", boundaries |-> <<>>]

InitDetector ==
    /\ \E n \in 1..MaxPages :
         \E kinds \in [1..n -> PageKinds] :
           \E toc_lines \in SeqsUpTo(TocLinePool, MaxTocLines) :
              pdf = MakePdf(toc_lines, kinds)
    /\ det = NewDetector
    /\ conv = None
    /\ para = None
    /\ tabs = None
    /\ content = None
    /\ out = None
    /\ pc = "opened"

\* HeadingDetector.get_section_boundaries
GetBoundaries ==
    /\ pc = "opened"
    /\ det' = GetSectionBoundaries(pdf, det)
    /\ pc' = "boundaries"
    /\ UNCHANGED <<out, pdf, conv, para, tabs, content>>

NextDetector == GetBoundaries

SpecDetector == InitDetector /\ [][NextDetector]_vars

(***************************************************************************)
(* Section boundaries: claims                                              *)
(***************************************************************************)
TotalPages == Len(pdf)

\* the level-1 entries of the contents that detect_toc returned
MainEntries == SelectIdx(det.toc_entries,
                         {i \in DOMAIN det.toc_entries : det.toc_entries[i].level = 1})

\* the target page an entry starts from: a missing one reads as page 0
TargetOf(entry) == IF entry.page_num # None THEN entry.page_num[1] ELSE 0

\* C3 (as claimed): every page index in [0, total_pages-1] lies inside the
\* inclusive range of at least one returned boundary, whichever path built
\* the list.
C3_EveryPageInSomeBoundary ==
    pc = "boundaries" =>
        \A p \in 0..(TotalPages - 1) :
            \E i \in DOMAIN det.boundaries :
                det.boundaries[i].start_page <= p /\ p <= det.boundaries[i].end_page

\* C4 (as claimed): boundaries built from the contents are contiguous in
\* page order, start_page[i] <= start_page[i+1] <= end_page[i] + 1, for any
\* target pages the entries carry.
C4_TocBoundariesInPageOrder ==
    (pc = "boundaries" /\ det.path = "toc") =>
        \A i \in 1..(Len(det.boundaries) - 1) :
            /\ det.boundaries[i].start_page <= det.boundaries[i + 1].start_page
            /\ det.boundaries[i + 1].start_page <= det.boundaries[i].end_page + 1

\* C4 (amended): boundaries built from the contents leave no gap,
\* start_page[i+1] <= end_page[i] + 1 for any target pages, and
\* start_page[i] <= start_page[i+1] for every consecutive pair of entries
\* whose target pages (a missing one read as page 0) do not decrease.
C4_TocBoundariesNoGap ==
    (pc = "boundaries" /\ det.path = "toc") =>
        \A i \in 1..(Len(det.boundaries) - 1) :
            /\ det.boundaries[i + 1].start_page <= det.boundaries[i].end_page + 1
            /\ TargetOf(MainEntries[i]) <= TargetOf(MainEntries[i + 1])
                  => det.boundaries[i].start_page <= det.boundaries[i + 1].start_page

\* C4 witness: two sections from the contents, the second starting on a later
\* page, which is the page the first one ends on.
C4_Witness ==
    /\ pc = "boundaries" /\ det.path = "toc" /\ Len(det.boundaries) >= 2
    /\ TargetOf(MainEntries[1]) < TargetOf(MainEntries[2])
    /\ det.boundaries[1].start_page < det.boundaries[2].start_page
    /\ det.boundaries[2].start_page = det.boundaries[1].end_page

\* C5: whenever detect_toc returns at least one entry, the boundaries are
\* exactly the level-1 entries, in contents order and with their titles, so
\* no level-2 entry yields a boundary and the heading fallback is not used.
C5_OneBoundaryPerMainEntry ==
    (pc = "boundaries" /\ det.toc_entries # <<>>) =>
        /\ det.path = "toc"
        /\ Len(det.boundaries) = Len(MainEntries)
        /\ Len(det.boundaries) =
              Cardinality({i \in DOMAIN det.toc_entries : det.toc_entries[i].level # 2})
        /\ \A i \in DOMAIN det.boundaries : det.boundaries[i].title = MainEntries[i].title

\* C5 witness: contents with a level-1 and a level-2 entry in a document
\* whose pages also hold lines that qualify as font-size headings.
C5_Witness ==
    /\ pc = "boundaries" /\ det.path = "toc"
    /\ \E i \in DOMAIN det.toc_entries : det.toc_entries[i].level = 2
    /\ Len(det.boundaries) = 1
    /\ DetectH1Headings(pdf, 0, {}, {}) # <<>>

\* C6: every returned boundary has 0 <= start_page <= end_page <= total_pages-1,
\* on the contents path for any target pages and on the other two paths.
C6_BoundariesInRange ==
    pc = "boundaries" =>
        \A i \in DOMAIN det.boundaries :
            /\ 0 <= det.boundaries[i].start_page
            /\ det.boundaries[i].start_page <= det.boundaries[i].end_page
            /\ det.boundaries[i].end_page <= TotalPages - 1

\* C6 witness: contents whose first entry points past the last page and whose
\* second entry points before the first page.
C6_Witness ==
    /\ pc = "boundaries" /\ det.path = "toc" /\ Len(det.boundaries) = 2
    /\ TargetOf(MainEntries[1]) > TotalPages - 1
    /\ TargetOf(MainEntries[2]) < 0

(***************************************************************************)
(* Hyperlink substitution: the paragraphs and link lists it is run on      *)
(***************************************************************************)
MaxLinks == 2

TextContact == <<"C","o","n","t","a","c","t"," ","t","h","e"," ","H","e","l","p"," ",
                 "D","e","s","k"," ","t","o","d","a","y">>
TextSeeIntro == <<"S","e","e"," ","I","n","t","r","o"," ","a","n","d"," ",
                  "H","e","l","p"," ","D","e","s","k">>
TextHelpTwice == <<"H","e","l","p"," ","D","e","s","k",","," ","H","e","l","p"," ",
                   "D","e","s","k">>
TextHelpDesk == <<"H","e","l","p"," ","D","e","s","k">>
TextHelpDeskToday == <<"H","e","l","p"," ","D","e","s","k"," ","t","o","d","a","y">>
TextHelp == <<"H","e","l","p">>
TextDesk == <<"D","e","s","k">>
UrlA == <<"A">>
UrlB == <<"B">>
UrlIntro == <<"#","i","n","t","r","o">>
FileIntro == <<"i","n","t","r","o",".","m","d">>
FileScope == <<"s","c","o","p","e",".","m","d">>

LinkA == [text |-> TextHelpDesk, url |-> UrlA, is_internal |-> FALSE]
LinkB == [text |-> TextHelpDeskToday, url |-> UrlB, is_internal |-> FALSE]

LinkPool ==
    {LinkA, LinkB,
     [text |-> TextHelp, url |-> UrlA, is_internal |-> FALSE],
     [text |-> TextDesk, url |-> UrlA, is_internal |-> FALSE],
     [text |-> TitleIntro, url |-> UrlIntro, is_internal |-> TRUE],
     [text |-> TitleIntro, url |-> UrlB, is_internal |-> TRUE]}

ParagraphPool == {TextContact, TextSeeIntro, TextHelpTwice}

SectionFiles == <<[title |-> TitleIntro, file |-> FileIntro],
                  [title |-> TitleScope, file |-> FileScope]>>

InitLinks ==
    /\ pdf = <<>>
    /\ det = NewDetector
    /\ \E links \in SeqsUpTo(LinkPool, MaxLinks) :
          conv = NewConverter(TitleScope, links, {}, SectionFiles, {})
    /\ \E text \in ParagraphPool : para = [text |-> text, result |-> None]
    /\ tabs = None
    /\ content = None
    /\ out = None
    /\ pc = "paragraph"

\* MarkdownConverter._apply_hyperlinks on the text of one paragraph
ApplyHyperlinksStep ==
    /\ pc = "paragraph"
    /\ para' = [para EXCEPT !.result = ApplyHyperlinks(conv, para.text)]
    /\ pc' = "linked"
    /\ UNCHANGED <<out, pdf, det, conv, tabs, content>>

NextLinks == ApplyHyperlinksStep

SpecLinks == InitLinks /\ [][NextLinks]_vars

\* how often p occurs in s, overlapping occurrences included
CountOccurrences(s, p) ==
    Cardinality({i \in 1..(Len(s) - Len(p) + 1) : Slice(s, i, i + Len(p) - 1) = p})

\* C9 (as claimed): each logical span is substituted at most once, and of two
\* overlapping spans the longer wins: for "Contact the Help Desk today" with
\* "Help Desk" -> A and "Help Desk today" -> B the result links
\* "Help Desk today" to B and holds no link to A.
C9_LongerSpanWins ==
    pc = "linked" =>
        /\ \A ml \in Range(MergeLinks(conv.hyperlinks, <<>>)) :
              ~ml.is_internal => CountOccurrences(para.result, ExternalLink(ml)) <= 1
        /\ (para.text = TextContact /\ Range(conv.hyperlinks) = {LinkA, LinkB}) =>
              /\ Contains(para.result, ExternalLink(LinkB))
              /\ ~Contains(para.result, LinkMid \o UrlA \o LinkClose)

(***************************************************************************)
(* Table cleaning: the raw tables it is run on.  pdfplumber's               *)
(* Table.extract() gives every row one cell per column of the table, so a  *)
(* raw table is a matrix.                                                  *)
(***************************************************************************)
MaxRows == 3
MaxCols == 3

CellAb == <<"a","b">>
CellAbcd == <<"a","b","c","d">>
CellTwoLines == <<"a","b","\n","c","d">>
CellWithHeader == <<"a","b","c","d","\n","A","c","m","e"," ","C","o","r","p">>
HeaderAbCdEf == <<"a","b"," ","c","d"," ","e","f">>

\* the header/footer entries the tables are cleaned against
TableHeaderEntries == {<<10, TextHeader>>, <<700, HeaderAbCdEf>>}

\* the rows of n cells the raw tables are made of: a full row of two-line
\* cells, a full row of cells that carry a header fragment, a row with one
\* used cell, a blank row (None cells), a row used in its odd columns only,
\* and a row of cells that contain their neighbours
RowPool(n) ==
    {[ci \in 1..n |-> CellTwoLines], [ci \in 1..n |-> CellWithHeader],
     [ci \in 1..n |-> None],
     [ci \in 1..n |-> IF ci % 2 = 1 THEN CellAb ELSE <<>>],
     [ci \in 1..n |-> IF ci % 2 = 1 THEN CellAbcd ELSE CellAb]}
    \cup {[ci \in 1..n |-> IF ci = j THEN CellAbcd ELSE <<" ">>] : j \in 1..n}

InitTables ==
    /\ pdf = <<>>
    /\ det = NewDetector
    /\ conv = NewConverter(TitleScope, <<>>, TableHeaderEntries, SectionFiles, {})
    /\ para = None
    /\ \E n \in 1..MaxCols :
          \E table \in SeqsUpTo(RowPool(n), MaxRows) :
             tabs = [raw |-> <<table>>, cleaned |-> None, recleaned |-> None]
    /\ content = None
    /\ out = None
    /\ pc = "found"

\* MarkdownConverter._clean_tables on the raw tables
CleanTablesStep ==
    /\ pc = "found"
    /\ tabs' = [tabs EXCEPT !.cleaned = TablesOf(CleanTables(conv, tabs.raw, None))]
    /\ pc' = "cleaned"
    /\ UNCHANGED <<out, pdf, det, conv, para, content>>

\* MarkdownConverter._clean_tables on its own output
CleanTablesAgainStep ==
    /\ pc = "cleaned"
    /\ tabs' = [tabs EXCEPT !.recleaned = TablesOf(CleanTables(conv, tabs.cleaned, None))]
    /\ pc' = "recleaned"
    /\ UNCHANGED <<out, pdf, det, conv, para, content>>

NextTables == CleanTablesStep \/ CleanTablesAgainStep

SpecTables == InitTables /\ [][NextTables]_vars

\* C7: table cleaning is idempotent: cleaning the output of _clean_tables
\* again yields the same list of tables, cell for cell.
C7_CleanTablesIdempotent ==
    pc = "recleaned" => tabs.recleaned = tabs.cleaned

\* C7 witness: a table that the first cleaning changed in each of its steps
\* (a header fragment stripped from a cell, a continuation row merged, sparse
\* columns merged) and that survived, cleaned a second time.
C7_Witness ==
    /\ pc = "recleaned"
    /\ tabs.cleaned # <<>>
    /\ Len(tabs.cleaned[1]) < Len(tabs.raw[1])
    /\ Len(tabs.cleaned[1][1]) < Len(tabs.raw[1][1])
    /\ \E r \in DOMAIN tabs.raw[1] : tabs.raw[1][r][1] = CellWithHeader


\* C15: every table _clean_tables returns has at least 2 rows and at least
\* 2 used columns, and is rendered; a raw table that cleaning reduces below
\* either bound is not returned, so gives no table item.
C15_ReturnedTablesAreTables ==
    pc = "cleaned" =>
        \A k \in DOMAIN tabs.cleaned :
            /\ Len(tabs.cleaned[k]) >= MinTableRows
            /\ MaxUsedCols(tabs.cleaned[k]) >= MinTableCols
            /\ TableToMarkdown(tabs.cleaned[k]) # <<>>

\* C15 witness: a raw table of three rows that cleaning brought down to
\* exactly two rows and that was returned.
C15_Witness ==
    /\ pc = "cleaned"
    /\ Len(tabs.raw[1]) = 3
    /\ tabs.cleaned # <<>>
    /\ Len(tabs.cleaned[1]) = MinTableRows

(***************************************************************************)
(* The pages the converter is run on                                       *)
(***************************************************************************)
\* a page whose non-blank lines sit at the given tops
PlacedPage(lines, tops) ==
    [text |-> lines,
     chars |-> {[top |-> tops[i], text |-> lines[i], size |-> 10] :
                   i \in {k \in DOMAIN lines : Strip(lines[k]) # <<>>}},
     tables |-> <<>>, bboxes |-> <<>>]

\* a page whose lines are evenly spaced
MakePage(lines) == PlacedPage(lines, [i \in DOMAIN lines |-> 20 * i])

\* what convert keeps of one page: the converter's flag before and after
\* the call, what _process_page returned, and what goes to content_items
PageRecord(c, page_num, r) ==
    [started_before |-> c.content_started, started_after |-> r.content_started,
     items |-> r.items, stop_y |-> r.stop_y, lines |-> r.lines,
     merged |-> MergeImages(r.items, 1, PageImages(c, page_num, r.stop_y), page_num)]

\* MarkdownConverter.convert, one turn of its loop: _process_page on the
\* next page of the section
ProcessPageStep ==
    /\ pc = "converting"
    /\ Len(content) < Len(pdf)
    /\ content' = Append(content, PageRecord(conv, Len(content),
                                             ProcessPage(conv, pdf[Len(content) + 1])))
    /\ conv' = [conv EXCEPT !.content_started = content'[Len(content')].started_after]
    /\ UNCHANGED <<out, pdf, det, para, tabs, pc>>

\* content_items once the loop of convert is over
ContentItems(pages) == Flatten([p \in DOMAIN pages |-> pages[p].merged])

\* MarkdownConverter.convert, after its loop: the return statement
ReturnStep ==
    /\ pc = "converting"
    /\ Len(content) = Len(pdf)
    /\ out' = [returned |-> FormatToMarkdown(conv, ContentItems(content))]
    /\ pc' = "converted"
    /\ UNCHANGED <<pdf, det, conv, para, tabs, content>>

(***************************************************************************)
(* Shared pages: a section "Scope" whose neighbour is "Intro"              *)
(***************************************************************************)
MaxPageLines == 2

LineBulletIntro == <<BULLET, " ">> \o TitleIntro
LineNumberIntro == <<"1", ".", " ">> \o TitleIntro

\* the lines of a first page: the section's title, the neighbour's title,
\* the neighbour's title as a bullet and as a numbered item, body text
PageLinePool == {TitleScope, TitleIntro, LineBulletIntro, LineNumberIntro, TextBody}

\* the lines of a second page, when the section has one
NextPagePool == {<<TitleScope>>, <<TextBody>>, <<TitleIntro>>}

InitPage ==
    /\ \E first \in SeqsUpTo(PageLinePool, MaxPageLines) :
          \/ pdf = <<MakePage(first)>>
          \/ \E second \in NextPagePool : pdf = <<MakePage(first), MakePage(second)>>
    /\ det = NewDetector
    /\ conv = NewConverter(TitleScope, <<>>, {}, SectionFiles, {})
    /\ para = None
    /\ tabs = None
    /\ content = <<>>
    /\ out = None
    /\ pc = "converting"

NextPage == ProcessPageStep

SpecPage == InitPage /\ [][NextPage]_vars

\* the titles of the sections other than the converter's own
NeighbourTitles ==
    {NormalizeTitle(conv.all_sections[i].title) : i \in DOMAIN conv.all_sections}
    \ {NormalizeTitle(conv.section_title)}

\* C1 (as claimed): no heading, bullet, numbered item or paragraph emitted by
\* _process_page has text that, once normalized as a title, equals the title
\* of a neighbouring section.
C1_NoItemIsNeighbourTitle ==
    \A k \in DOMAIN content :
       \A n \in DOMAIN content[k].items :
          content[k].items[n].type \in {"heading", "bullet", "numbered", "paragraph"}
             => NormalizeTitle(content[k].items[n].text) \notin NeighbourTitles

\* the section's title is on no line of the page
TitleAbsent(page) ==
    \A i \in DOMAIN page.text :
       NormalizeTitle(Strip(page.text[i])) # NormalizeTitle(conv.section_title)

\* C2 (as claimed): a page processed before the section has started, on which
\* no line is the section's title, contributes no items and no stop boundary
\* and leaves the section not started.
C2_PageWithoutTitleSkipped ==
    \A k \in DOMAIN content :
       (~content[k].started_before /\ TitleAbsent(pdf[k]))
          => /\ content[k].items = <<>>
             /\ content[k].stop_y = None
             /\ ~content[k].started_after

(***************************************************************************)
(* Lists at a shifted indent: the same page processed as it is and with    *)
(* every line moved right by the same number of columns                    *)
(***************************************************************************)
MaxListLines == 3
MaxShift == 2

TextOne == <<"o","n","e">>
TextTwo == <<"t","w","o">>
TextMore == <<"m","o","r","e">>

\* a numbered item, a lettered sub-item at the left margin and one under
\* the numbered item, a wrapped line, a bullet and a sub-bullet
ListLinePool ==
    {<<"1", ".", " ">> \o TextOne,
     <<"a", ".", " ">> \o TextTwo,
     Spaces(8) \o <<"a", ".", " ">> \o TextTwo,
     Spaces(2) \o TextMore,
     <<BULLET, " ">> \o TextOne,
     Spaces(4) \o TextTwo}

\* every non-blank line moved right by k columns
ShiftLines(lines, k) ==
    [i \in DOMAIN lines |->
        IF Strip(lines[i]) = <<>> THEN lines[i] ELSE Spaces(k) \o lines[i]]

InitShift ==
    /\ \E lines \in SeqsUpTo(ListLinePool, MaxListLines) : pdf = <<MakePage(lines)>>
    /\ det = NewDetector
    /\ conv = [NewConverter(TitleScope, <<>>, {}, SectionFiles, {})
                 EXCEPT !.content_started = TRUE]
    /\ para = None
    /\ tabs = None
    /\ \E k \in 1..MaxShift : content = [shift |-> k, plain |-> None, shifted |-> None]
    /\ out = None
    /\ pc = "page"

\* _process_page on the page as it is
ProcessPlainStep ==
    /\ pc = "page"
    /\ content' = [content EXCEPT !.plain = ProcessPage(conv, pdf[1]).items]
    /\ pc' = "plain"
    /\ UNCHANGED <<out, pdf, det, conv, para, tabs>>

\* _process_page, by a converter in the same state, on the shifted page
ProcessShiftedStep ==
    /\ pc = "plain"
    /\ content' = [content EXCEPT !.shifted =
                      ProcessPage(conv, MakePage(ShiftLines(pdf[1].text, content.shift))).items]
    /\ pc' = "shifted"
    /\ UNCHANGED <<out, pdf, det, conv, para, tabs>>

NextShift == ProcessPlainStep \/ ProcessShiftedStep

SpecShift == InitShift /\ [][NextShift]_vars

\* the (type, level, marker, text) of the bullet and numbered items
ListItems(items) ==
    LET keep == SelectIdx(items, {n \in DOMAIN items :
                                    items[n].type \in {"bullet", "numbered"}})
    IN  [n \in DOMAIN keep |->
           <<keep[n].type, keep[n].level, keep[n].marker, keep[n].text>>]

\* C8 (as claimed): shifting every line of the page by the same k changes
\* nothing in the bullet and numbered items produced, lettered sub-items at
\* indent 0 included.
C8_ShiftInvariantAlways ==
    pc = "shifted" => ListItems(content.shifted) = ListItems(content.plain)

\* a lettered line ("a. ...") at the left margin
LetteredAtMargin(lines) ==
    \E i \in DOMAIN lines : LetterMatch(Strip(lines[i])).ok /\ IndentOf(lines[i]) = 0

\* C8 (amended): shifting every line of the page by the same k changes
\* nothing in the bullet and numbered items produced, provided no lettered
\* line of the page is at indent 0.
C8_ShiftInvariant ==
    (pc = "shifted" /\ ~LetteredAtMargin(pdf[1].text))
       => ListItems(content.shifted) = ListItems(content.plain)

\* a shifted page with a lettered sub-item nested under a numbered item
C8_Witness ==
    /\ pc = "shifted"
    /\ ~LetteredAtMargin(pdf[1].text)
    /\ \E n \in DOMAIN content.shifted :
          /\ content.shifted[n].type = "numbered"
          /\ content.shifted[n].level = 1

(***************************************************************************)
(* Headers and footers: a document whose pages may carry a footer, and a   *)
(* body line with the footer's text                                        *)
(***************************************************************************)
TextChapter == <<"C","h","a","p","t","e","r"," ","T","i","t","l","e">>
FileDocument == <<"S","e","c","t","i","o","n","_","0","1","_",
                  "D","o","c","u","m","e","n","t",".","m","d">>

\* a page with at most one body line, at top 100, and at most one footer
\* line, at top 780
HeaderPage(body, footer) ==
    PlacedPage(body \o footer,
               [i \in 1..(Len(body) + Len(footer)) |-> IF i <= Len(body) THEN 100 ELSE 780])

HeaderPagePool ==
    {HeaderPage(body, footer) :
        body \in {<<>>, <<TextChapter>>, <<TextBody>>}, footer \in {<<>>, <<TextChapter>>}}

InitHeader ==
    /\ \E n \in 1..MaxPages : pdf \in [1..n -> HeaderPagePool]
    /\ det = NewDetector
    /\ conv = None
    /\ para = None
    /\ tabs = None
    /\ content = None
    /\ out = None
    /\ pc = "opened"

\* the converter of the document's only section is made with what the
\* detector found
StartConvert ==
    /\ pc = "boundaries"
    /\ Len(det.boundaries) = 1
    /\ det.boundaries[1].start_page = 0 /\ det.boundaries[1].end_page = Len(pdf) - 1
    /\ conv' = NewConverter(det.boundaries[1].title, <<>>, det.header_footer_entries,
                            <<[title |-> det.boundaries[1].title, file |-> FileDocument]>>,
                            det.sub_titles)
    /\ content' = <<>>
    /\ pc' = "converting"
    /\ UNCHANGED <<out, pdf, det, para, tabs>>

NextHeader == GetBoundaries \/ StartConvert \/ ProcessPageStep

SpecHeader == InitHeader /\ [][NextHeader]_vars

\* the tops of a page at which the detector found a header or footer
HeaderTops(page) ==
    {g.top : g \in {h \in page.chars :
                      <<h.top, Collapse(h.text)>> \in conv.header_footer_entries}}

\* C10 (as claimed): on every page, a line that sits at a header/footer
\* position with the header/footer's text is removed from the cleaned lines,
\* and no content item carries its text at its position, also when a body
\* line with the same text precedes it.
C10_HeaderLinesRemoved ==
    \A k \in DOMAIN content :
       /\ \A i \in DOMAIN pdf[k].text :
             GetLineYPositions(pdf[k])[i] \in HeaderTops(pdf[k])
                => i \in GetHeaderLineIndices(conv, pdf[k])
       /\ \A n \in DOMAIN content[k].items :
             content[k].items[n].y \in HeaderTops(pdf[k])
                => <<content[k].items[n].y, Collapse(content[k].items[n].text)>>
                      \notin conv.header_footer_entries

(***************************************************************************)
(* Recurring headers and footers: claim                                    *)
(***************************************************************************)
\* the pages detect_headers_footers samples: those after the first, up to
\* the tenth
SampledPages == {i \in DOMAIN pdf : 2 <= i /\ i <= SampleEnd}

\* the (rounded Y, normalized text) pairs of one page
PagePairs(page) == {<<ch.top, Collapse(ch.text)>> : ch \in page.chars}

\* the pairs that occur on at least half of the sampled pages, a page
\* counting a pair once
PairsOnHalfTheSample ==
    {k \in UNION {PagePairs(pdf[i]) : i \in SampledPages} :
        2 * Cardinality({i \in SampledPages : k \in PagePairs(pdf[i])})
            >= Cardinality(SampledPages)}

\* C11: detect_headers_footers returns exactly the (rounded Y, normalized
\* text) pairs that occur on at least half of the sampled pages.
C11_EntriesAreHalfOfSample ==
    pc = "boundaries" => det.header_footer_entries = PairsOnHalfTheSample

(***************************************************************************)
(* Nested numbered lists: a numbered item with a lettered and a Roman      *)
(* sub-item under it                                                       *)
(***************************************************************************)
MaxBase == 2

LineFirstItem == <<"1","."," ","F","i","r","s","t"," ","i","t","e","m">>
LineSubItem == <<"a","."," ","S","u","b"," ","i","t","e","m">>
LineRomanSub == <<"i","."," ","R","o","m","a","n"," ","s","u","b">>
LineNextItem == <<"2","."," ","N","e","x","t"," ","i","t","e","m">>
TextFirstItem == <<"F","i","r","s","t"," ","i","t","e","m">>
TextSubItem == <<"S","u","b"," ","i","t","e","m">>
TextRomanSub == <<"R","o","m","a","n"," ","s","u","b">>
TextNextItem == <<"N","e","x","t"," ","i","t","e","m">>

\* the three lines, the first at indent b, the second d1 and the third d2
\* columns further right
NestedLines(b, d1, d2) ==
    <<Spaces(b) \o LineFirstItem, Spaces(b + d1) \o LineSubItem,
      Spaces(b + d2) \o LineRomanSub>>

\* the page may open with a line of body text and close with the next
\* numbered item
InitNested ==
    /\ \E b \in 0..MaxBase :
         \E d1 \in SubIndent..(SubSubIndent - 1) :
           \E d2 \in SubSubIndent..(SubNumberIndent - 1) :
             \E before \in {<<>>, <<TextBody>>} :
               \E after \in {<<>>, <<Spaces(b) \o LineNextItem>>} :
                  pdf = <<MakePage(before \o NestedLines(b, d1, d2) \o after)>>
    /\ det = NewDetector
    /\ conv = [NewConverter(TitleScope, <<>>, {}, SectionFiles, {})
                 EXCEPT !.content_started = TRUE]
    /\ para = None
    /\ tabs = None
    /\ content = <<>>
    /\ out = None
    /\ pc = "converting"

NextNested == ProcessPageStep

SpecNested == InitNested /\ [][NextNested]_vars

\* an item without its position
Unplaced(item) ==
    [type |-> item.type, level |-> item.level, marker |-> item.marker, text |-> item.text]

\* the items of a page without their positions
UnplacedItems(items) == [k \in DOMAIN items |-> Unplaced(items[k])]

\* Numbered(level, marker, text)
Numbered(level, marker, text) ==
    [type |-> "numbered", level |-> level, marker |-> marker, text |-> text]

\* the three items of the nested list
NestedItems ==
    <<Numbered(0, <<"1">>, TextFirstItem), Numbered(1, <<"a">>, TextSubItem),
      Numbered(2, <<"i">>, TextRomanSub)>>

\* what the line before and the line after the list are classified as
ItemsBefore(lines) ==
    IF lines[1] = TextBody
    THEN <<[type |-> "paragraph", level |-> None, marker |-> None, text |-> TextBody]>>
    ELSE <<>>
ItemsAfter(lines) ==
    IF NumberMatch(Strip(lines[Len(lines)])).marker = <<"2">>
    THEN <<Numbered(0, <<"2">>, TextNextItem)>>
    ELSE <<>>

\* C12: "1. First item" at indent b, "a. Sub item" at an indent in
\* [b+4, b+9) and "i. Roman sub" at an indent in [b+9, b+14) are emitted as
\* Numbered(0, "1", "First item"), Numbered(1, "a", "Sub item"),
\* Numbered(2, "i", "Roman sub"), in this order, and nothing else is emitted
\* for these lines.
C12_NestedListClassified ==
    Len(content) = 1 =>
        UnplacedItems(content[1].items)
            = ItemsBefore(pdf[1].text) \o NestedItems \o ItemsAfter(pdf[1].text)

\* C12 witness: a page on which the list is indented, stands between a
\* paragraph and a further numbered item, and has been classified.
C12_Witness ==
    /\ Len(content) = 1
    /\ Len(pdf[1].text) = 5
    /\ IndentOf(pdf[1].text[2]) > 0
    /\ Len(content[1].items) = 5

(***************************************************************************)
(* Shared pages with tables and images: the page is a column of blocks,    *)
(* each a line of body text, the neighbour's title, or a table of two rows *)
(***************************************************************************)
MaxBlocks == 3

BlockHeight == 40
RowHeight == 20
BlockKinds == {"body", "title", "table"}

CellName == <<"N","a","m","e">>
CellValue == <<"V","a","l","u","e">>
CellItem == <<"I","t","e","m">>
CellNo == <<"N","o"," ">>

\* the raw table of block i: its last cell names the block
BlockTable(i) == <<<<CellName, CellValue>>, <<CellItem, CellNo \o ToDigits(i)>>>>

\* the text lines of block i and the Y of each
BlockLines(kind, i) ==
    IF kind = "body" THEN <<TextBody>>
    ELSE IF kind = "title" THEN <<TitleIntro>>
    ELSE [r \in 1..2 |-> Join(BlockTable(i)[r], <<" ">>)]

BlockTops(kind, i) ==
    IF kind = "table" THEN <<BlockHeight * i, BlockHeight * i + RowHeight>>
    ELSE <<BlockHeight * i>>

\* (top, bottom) of the table of block i
BlockBbox(i) == <<BlockHeight * i - 2, BlockHeight * i + RowHeight + 10>>

\* the blocks that are tables, in page order
TableBlocks(kinds) == SelectIdx([i \in DOMAIN kinds |-> i],
                                {i \in DOMAIN kinds : kinds[i] = "table"})

\* page.extract_text, page.chars and page.find_tables of the page
BlockPage(kinds) ==
    [PlacedPage(Flatten([i \in DOMAIN kinds |-> BlockLines(kinds[i], i)]),
                Flatten([i \in DOMAIN kinds |-> BlockTops(kinds[i], i)]))
       EXCEPT !.tables = [k \in DOMAIN TableBlocks(kinds) |-> BlockTable(TableBlocks(kinds)[k])],
              !.bboxes = [k \in DOMAIN TableBlocks(kinds) |-> BlockBbox(TableBlocks(kinds)[k])]]

\* where an image may sit: level with the first line of a block, or under
\* the block
ImageYs(n) == {BlockHeight * i : i \in 1..n} \cup {BlockHeight * i + 30 : i \in 1..n}

ImagePrefix == <<"o","u","t","/","i","m","a","g","e","s","/","i","m","g">>
ImageSuffix == <<".","p","n","g">>

\* an image of page 0 named after its Y
ImageAt(y, saved) ==
    [page_num |-> 0, y |-> y,
     saved_path |-> IF saved THEN ImagePrefix \o ToDigits(y) \o ImageSuffix ELSE None]

InitStop ==
    /\ \E kinds \in SeqsUpTo(BlockKinds, MaxBlocks) \ {<<>>} :
          /\ pdf = <<BlockPage(kinds)>>
          /\ \E y1, y2 \in ImageYs(Len(kinds)) : \E saved \in BOOLEAN :
                conv = [NewConverter(TitleScope, <<>>, {}, SectionFiles, {})
                          EXCEPT !.content_started = TRUE,
                                 !.images = IF y1 = y2 THEN <<ImageAt(y1, saved)>>
                                            ELSE <<ImageAt(y1, TRUE), ImageAt(y2, saved)>>]
    /\ det = NewDetector
    /\ para = None
    /\ tabs = None
    /\ content = <<>>
    /\ out = None
    /\ pc = "converting"

NextStop == ProcessPageStep

SpecStop == InitStop /\ [][NextStop]_vars

\* the lines of a page that are another section's title
TitleLines(page) ==
    {i \in DOMAIN page.text : IsNextSectionTitle(conv, Collapse(Strip(page.text[i])))}

\* the Y of the first of them
FirstTitleY(page) ==
    LET i == CHOOSE k \in TitleLines(page) : \A u \in TitleLines(page) : k <= u
    IN  CHOOSE y \in {ch.top : ch \in {d \in page.chars : d.text = page.text[i]}} :
           \A ch \in page.chars : (ch.text = page.text[i]) => y <= ch.top

\* the item that renders table k of the page is in the items
TableRendered(page, k, items) ==
    \E n \in DOMAIN items :
       /\ items[n].type = "table"
       /\ Contains(items[n].text, Collapse(page.tables[k][2][2]))

\* the item of an image is in what goes to content_items
ImageMerged(img, merged) ==
    \E n \in DOMAIN merged :
       /\ merged[n].type = "image"
       /\ merged[n].path = ImageDir \o BaseName(img.saved_path)

\* C13: on a page where the walk recognizes another section's title, the
\* scan ends at that line: its Y is returned as stop_y, no line at or below
\* it is classified, and no table whose top and no image whose Y is at or
\* below stop_y goes to the section's content.
C13_ScanStopsAtNextTitle ==
    \A p \in DOMAIN content :
        TitleLines(pdf[p]) # {} =>
            /\ content[p].stop_y = <<FirstTitleY(pdf[p])>>
            /\ \A n \in DOMAIN content[p].items :
                  content[p].items[n].type # "table"
                      => content[p].items[n].y < content[p].stop_y[1]
            /\ \A k \in DOMAIN pdf[p].tables :
                  pdf[p].bboxes[k][1] >= content[p].stop_y[1]
                      => ~TableRendered(pdf[p], k, content[p].merged)
            /\ \A k \in DOMAIN conv.images :
                  (conv.images[k].saved_path # None
                     /\ conv.images[k].y >= content[p].stop_y[1])
                      => ~ImageMerged(conv.images[k], content[p].merged)

\* C13 witness: a converted page with a table above and a table below the
\* neighbour's title, an image above it and an image level with it; the
\* table and the image above are in the content.
C13_Witness ==
    /\ Len(content) = 1
    /\ content[1].stop_y # None
    /\ \E k \in DOMAIN pdf[1].tables :
          /\ pdf[1].bboxes[k][1] < content[1].stop_y[1]
          /\ TableRendered(pdf[1], k, content[1].merged)
    /\ \E k \in DOMAIN pdf[1].tables : pdf[1].bboxes[k][1] >= content[1].stop_y[1]
    /\ \E k \in DOMAIN conv.images :
          /\ conv.images[k].y < content[1].stop_y[1]
          /\ ImageMerged(conv.images[k], content[1].merged)
    /\ \E k \in DOMAIN conv.images :
          /\ conv.images[k].saved_path # None
          /\ conv.images[k].y = content[1].stop_y[1]

(***************************************************************************)
(* A section run: Autoscraper.process builds the section's converter and   *)
(* calls convert on it; convert is also run on a converter built by the    *)
(* signature of __init__                                                   *)
(***************************************************************************)
\* the parameters MarkdownConverter.__init__ accepts
InitParameters ==
    {"pdf_path", "section_title", "section_id", "images", "hyperlinks",
     "header_footer_entries", "all_sections", "sub_titles"}

\* the keywords Autoscraper.process passes to it
CallKeywords ==
    {"pdf_path", "section_title", "section_id", "images", "hyperlinks",
     "header_footer_entries", "all_sections", "sub_titles", "next_section_title"}

\* the pages of a section: a page without text, a page of body text, the
\* page the section's title is on
SectionPagePool == {MakePage(<<>>), MakePage(<<TextBody>>), MakePage(<<TitleScope, TextBody>>)}

InitSection ==
    /\ \E pages \in SeqsUpTo(SectionPagePool, MaxPages) \ {<<>>} : pdf = pages
    /\ det = NewDetector
    /\ \/ pc = "section" /\ conv = None
       \/ pc = "converting" /\ conv = NewConverter(TitleScope, <<>>, {}, SectionFiles, {})
    /\ para = None
    /\ tabs = None
    /\ content = <<>>
    /\ out = None

\* Autoscraper.process, "Convert to Markdown": the call of the constructor;
\* a keyword the constructor does not accept raises TypeError
ConstructStep ==
    /\ pc = "section"
    /\ IF CallKeywords \subseteq InitParameters
       THEN /\ conv' = NewConverter(TitleScope, <<>>, {}, SectionFiles, {})
            /\ pc' = "converting"
            /\ out' = out
       ELSE /\ conv' = conv
            /\ pc' = "raised"
            /\ out' = [raised |-> "TypeError"]
    /\ UNCHANGED <<pdf, det, para, tabs, content>>

NextSection == ConstructStep \/ ProcessPageStep \/ ReturnStep

SpecSection == InitSection /\ [][NextSection]_vars

\* a (markdown, has_meaningful_content) pair
IsSignalled(returned) == Len(returned) = 2 /\ returned[2] \in BOOLEAN

\* no page of the section gave a content item
NoContent == \A p \in DOMAIN content : content[p].merged = <<>>

\* C14: when no page of a section yields content, convert does not raise and
\* returns a no-meaningful-content signal alongside the markdown, and
\* Autoscraper.process receives it: the section run never ends in an
\* exception, and the value returned for an empty section is a pair whose
\* second member is FALSE.
C14_EmptySectionSignalled ==
    /\ pc # "raised"
    /\ (pc = "converted" /\ NoContent) =>
          (IsSignalled(out.returned) /\ out.returned[2] = FALSE)

(***************************************************************************)
(* Formatting: the content items _format_to_markdown is run on             *)
(***************************************************************************)
MaxItems == 3

TextGap == <<"m","o","r","e">> \o <<"\n", "\n", "\n", "\n">> \o <<"t","e","x","t">>
TextTrailing == <<"t","e","x","t">> \o <<"\n", "\n">>
TextRows == <<"|"," ","a"," ","|"," ","b"," ","|">> \o <<"\n">> \o <<"|"," ","-","-","-"," ","|"," ","-","-","-"," ","|">> \o <<"\n">> \o <<"|"," ","c"," ","|"," ","d"," ","|">>
ImageName == <<"i","m","g",".","p","n","g">>

\* an item of each type; texts that are empty, that end in newlines and that
\* hold a run of newlines
ContentItemPool ==
    <<Item("heading", 2, None, TitleIntro, 0), Item("heading", 3, None, <<>>, 0),
     Item("bullet", 0, None, TextBody, 0), Item("bullet", 2, None, TextTrailing, 0),
     Item("numbered", 1, <<"a">>, TextGap, 0),
     Item("paragraph", None, None, TextGap, 0), Item("paragraph", None, None, <<>>, 0),
     Item("table", None, None, TextRows, 0),
     ImageItem([page_num |-> 0, y |-> 0, saved_path |-> ImageName], 0)>>

InitFormat ==
    /\ pdf = <<>>
    /\ det = NewDetector
    /\ conv = NewConverter(TitleScope, <<>>, {}, SectionFiles, {})
    /\ para = None
    /\ tabs = None
    /\ \E picked \in SeqsUpTo(DOMAIN ContentItemPool, MaxItems) :
          content = [k \in DOMAIN picked |-> ContentItemPool[picked[k]]]
    /\ out = None
    /\ pc = "items"

\* MarkdownConverter._format_to_markdown on the content items
FormatStep ==
    /\ pc = "items"
    /\ out' = [returned |-> FormatToMarkdown(conv, content)]
    /\ pc' = "formatted"
    /\ UNCHANGED <<pdf, det, conv, para, tabs, content>>

NextFormat == FormatStep

SpecFormat == InitFormat /\ [][NextFormat]_vars

\* C16: the string _format_to_markdown returns never holds 3 or more
\* consecutive newlines, whatever the items and their texts, and it starts
\* with the section title as a level-1 heading.
C16_NoThreeNewlines ==
    pc = "formatted" =>
        /\ ~Contains(out.returned, <<"\n", "\n", "\n">>)
        /\ StartsWith(out.returned, <<"#", " ">> \o conv.section_title \o <<"\n">>)

\* C16 witness: items whose joined texts held a run of 3 or more newlines,
\* formatted.
C16_Witness ==
    /\ pc = "formatted"
    /\ Len(content) = MaxItems
    /\ \E k \in DOMAIN content : content[k].type = "paragraph" /\ content[k].text = TextGap
    /\ \E k \in DOMAIN content : content[k].type = "heading"
    /\ Contains(out.returned, <<"t", "\n", "\n", "#">>)

(***************************************************************************)
(* Nested bullets: a bullet and the lines under it                         *)
(***************************************************************************)
LinePoint == <<BULLET, " ">> \o <<"p","o","i","n","t">>
LineMarked == <<SUBSUB, " ">> \o <<"m","a","r","k","e","d">>
TextDeep == <<"d","e","e","p"," ","t","e","x","t">>

\* what may stand between the bullet and the last line: nothing, a line
\* that begins with the sub-sub glyph, a glyph alone, an "o" alone
MiddleLines(b) ==
    {<<>>, <<Spaces(b + SubSubIndent) \o LineMarked>>,
     <<Spaces(b + SubSubIndent) \o <<SUBSUB>>>>, <<Spaces(b + SubIndent) \o <<"o">>>>}

InitBullet ==
    /\ \E b \in 0..MaxBase :
         \E d \in SubIndent..(SubNumberIndent - 1) :
           \E middle \in MiddleLines(b) :
              pdf = <<MakePage(<<Spaces(b) \o LinePoint>> \o middle
                               \o <<Spaces(b + d) \o TextDeep>>)>>
    /\ det = NewDetector
    /\ conv = [NewConverter(TitleScope, <<>>, {}, SectionFiles, {})
                 EXCEPT !.content_started = TRUE]
    /\ para = None
    /\ tabs = None
    /\ content = <<>>
    /\ out = None
    /\ pc = "converting"

NextBullet == ProcessPageStep

SpecBullet == InitBullet /\ [][NextBullet]_vars

\* how far the last line of the page is indented past the bullet
DepthOfLast(lines) == IndentOf(lines[Len(lines)]) - IndentOf(lines[1])

\* the text of the last line is in a bullet item of the level
LastLineAtLevel(page, items, level) ==
    \E n \in DOMAIN items :
       /\ items[n].type = "bullet"
       /\ items[n].level = level
       /\ EndsWith(items[n].text, Strip(page.text[Len(page.text)]))

\* C17: under a bullet at indent base, a line indented by base+9 or more is
\* a sub-sub-bullet (level 2), as a line that begins with the sub-sub glyph
\* is, and a line indented in [base+4, base+9) is a sub-bullet (level 1).
C17_IndentGivesBulletLevel ==
    Len(content) = 1 =>
        LastLineAtLevel(pdf[1], content[1].items,
                        IF DepthOfLast(pdf[1].text) >= SubSubIndent THEN 2 ELSE 1)

(***************************************************************************)
(* Paragraphs next to tables: a page with one table, text before it and    *)
(* text after it                                                           *)
(***************************************************************************)
CellProduct == <<"P","r","o","d","u","c","t"," ","n","a","m","e">>
CellPrice == <<"U","n","i","t"," ","p","r","i","c","e">>
CellBolts == <<"S","t","e","e","l"," ","b","o","l","t","s">>
CellEuro == <<"1","2"," ","e","u","r","o">>
CellNuts == <<"B","r","a","s","s"," ","n","u","t","s">>
CellCent == <<"4","0"," ","c","e","n","t">>
TextLower == <<"m","o","r","e"," ","t","e","x","t">>
TextAfter == <<"A","f","t","e","r"," ","t","h","e"," ","t","a","b","l","e">>

\* the raw table: two or three rows of two cells
PriceTable(rows) ==
    Slice(<<<<CellProduct, CellPrice>>, <<CellBolts, CellEuro>>, <<CellNuts, CellCent>>>>,
          1, rows)

\* the lines of the page: the text before the table, a blank line or none,
\* the rows of the table as page.extract_text gives them, the text after it
TablePageLines(before, gap, rows, after) ==
    before \o gap \o [r \in 1..rows |-> Join(PriceTable(rows)[r], <<" ">>)] \o after

\* the page: its lines 20 apart, the table's box around its rows
TablePage(before, gap, rows, after) ==
    [MakePage(TablePageLines(before, gap, rows, after))
       EXCEPT !.tables = <<PriceTable(rows)>>,
              !.bboxes = <<<<20 * (Len(before) + Len(gap) + 1) - 2,
                             20 * (Len(before) + Len(gap) + rows) + 12>>>>]

InitParagraph ==
    /\ \E before \in {<<>>, <<TextBody>>, <<TextBody, TextLower>>} :
         \E gap \in {<<>>, <<<<>>>>} :
           \E rows \in 2..MaxRows :
             \E after \in {<<>>, <<TextLower>>, <<TextAfter>>, <<TextLower, TextAfter>>} :
                pdf = <<TablePage(before, gap, rows, after)>>
    /\ det = NewDetector
    /\ \E started \in BOOLEAN :
          conv = [NewConverter(TitleScope, <<>>, {}, SectionFiles, {})
                    EXCEPT !.content_started = started]
    /\ para = None
    /\ tabs = None
    /\ content = <<>>
    /\ out = None
    /\ pc = "converting"

NextParagraph == ProcessPageStep

SpecParagraph == InitParagraph /\ [][NextParagraph]_vars

\* the lines of the page that are table text
TableTextLines(page) ==
    {i \in DOMAIN page.text :
        /\ Strip(page.text[i]) # <<>>
        /\ IsTableText(Strip(page.text[i]),
                       GetTableTextContent(TablesOf(CleanTables(conv, page.tables, page.bboxes))))}

\* the first of them
FirstTableTextLine(page) ==
    CHOOSE i \in TableTextLines(page) : \A k \in TableTextLines(page) : i <= k

\* a paragraph runs straight into the table: the line right above the first
\* table-text line is body text
ParagraphMeetsTable(page) ==
    /\ TableTextLines(page) # {}
    /\ FirstTableTextLine(page) > 1
    /\ Strip(page.text[FirstTableTextLine(page) - 1]) # <<>>

\* C18: a paragraph ends at the first following line that is table text:
\* the paragraph holds only the lines above that line, and the main scan
\* sees the line and records the insertion point, so the table is placed
\* right after the paragraph at the Y of that line.
C18_ParagraphEndsAtTableText ==
    (Len(content) = 1 /\ ParagraphMeetsTable(pdf[1])) =>
        /\ Len(content[1].items) >= 2
        /\ content[1].items[1].type = "paragraph"
        /\ content[1].items[1].text
              = Join(Slice(pdf[1].text, 1, FirstTableTextLine(pdf[1]) - 1), <<" ">>)
        /\ content[1].items[2].type = "table"
        /\ content[1].items[2].y = 20 * FirstTableTextLine(pdf[1])


(***************************************************************************)
(* SpecTitle: _is_next_section_title on one line of text, for a converter  *)
(* whose section list holds its own title and at most one other title.     *)
(* The titles sit at the lengths the containment test distinguishes, the   *)
(* lines at the lengths the prefix test distinguishes.                     *)
(***************************************************************************)
TitleReferences == <<"R","e","f","e","r","e","n","c","e","s">>
TitleDefinitions == <<"D","e","f","i","n","i","t","i","o","n","s">>
TitleTerms == <<"T","e","r","m","s",".">>
TitleSpaced == <<"M","a","i","n"," "," ","p","o","i","n","t","s">>
TextTerms == <<"T","e","r","m","s">>
TextSee == <<"s","e","e"," ">>

\* a blank and then filler, n characters in all
Padding(n) == [i \in 1..n |-> IF i = 1 THEN " " ELSE "x"]

OwnTitles == {TitleScope, TitleSpaced}
OtherTitles == {TitleIntro, TitleReferences, TitleDefinitions, TitleTerms}
LineCores == OtherTitles \cup {TitleScope, Collapse(TitleSpaced), TextTerms}
LineTails == {<<>>, Padding(NextTitleMaxExtra - 1), Padding(NextTitleMaxExtra)}

InitTitle ==
    /\ pdf = <<>>
    /\ det = NewDetector
    /\ \E own \in OwnTitles, others \in SeqsUpTo(OtherTitles, 1) :
          conv = NewConverter(own, <<>>, {},
                    <<[title |-> own, file |-> FileScope]>>
                       \o [k \in DOMAIN others |-> [title |-> others[k], file |-> FileIntro]],
                    {})
    /\ \E head \in {<<>>, TextSee}, core \in LineCores, tail \in LineTails :
          para = [text |-> head \o core \o tail, result |-> None]
    /\ tabs = None
    /\ content = None
    /\ out = None
    /\ pc = "line"

\* MarkdownConverter._is_next_section_title on the line
IsNextSectionTitleStep ==
    /\ pc = "line"
    /\ para' = [para EXCEPT !.result = IsNextSectionTitle(conv, para.text)]
    /\ pc' = "titled"
    /\ UNCHANGED <<out, pdf, det, conv, tabs, content>>

NextTitle == IsNextSectionTitleStep

SpecTitle == InitTitle /\ [][NextTitle]_vars

\* the entries of the section list that are not the converter's own title
OtherSections(c) ==
    {i \in DOMAIN c.all_sections :
        NormalizeTitle(c.all_sections[i].title) # NormalizeTitle(c.section_title)}

\* the three conditions as stated: equal, prefix with at most 20 extra
\* characters, contained with a title of at least 10 characters
StatedMatch(text_normalized, section_normalized) ==
    \/ text_normalized = section_normalized
    \/ /\ StartsWith(text_normalized, section_normalized)
       /\ Len(text_normalized) <= Len(section_normalized) + NextTitleMaxExtra
    \/ /\ Contains(text_normalized, section_normalized)
       /\ Len(section_normalized) >= NextTitleMinContained

\* C19: _is_next_section_title returns true for a line whenever the line
\* equals another section's normalized title, starts with it and has at most
\* 20 extra characters, or contains it and the title has at least 10
\* characters; and it does not return true when the only title it could
\* match is the section's own.
C19_NextTitleConditions ==
    pc = "titled" =>
        /\ (\E i \in OtherSections(conv) :
               StatedMatch(NormalizeTitle(para.text),
                           NormalizeTitle(conv.all_sections[i].title)))
              => para.result
        /\ OtherSections(conv) = {} => ~para.result


(***************************************************************************)
(* SpecOrder: _process_page on a page of one-line items whose character    *)
(* rows are either a full row apart or so close that _get_line_y_positions *)
(* merges them, so that the page can have more text lines than Y groups.   *)
(***************************************************************************)
MaxOrderLines == 3

TitleOverview == <<"O","v","e","r","v","i","e","w">>

OrderLinePool == {TextBody, LinePoint, LineFirstItem, TitleOverview}

\* the tops of the character rows: the first one, then one gap further each
RECURSIVE TopsFrom(_, _)
TopsFrom(top, gaps) ==
    IF gaps = <<>> THEN <<top>>
    ELSE <<top>> \o TopsFrom(top + gaps[1], Tail(gaps))

InitOrder ==
    /\ \E lines \in SeqsUpTo(OrderLinePool, MaxOrderLines) :
         \E gaps \in [1..(Len(lines) - 1) -> {YMergeGap, RowHeight}] :
            pdf = <<PlacedPage(lines, TopsFrom(RowHeight, gaps))>>
    /\ det = NewDetector
    /\ conv = [NewConverter(TitleScope, <<>>, {}, SectionFiles, {})
                 EXCEPT !.content_started = TRUE]
    /\ para = None
    /\ tabs = None
    /\ content = <<>>
    /\ out = None
    /\ pc = "converting"

NextOrder == ProcessPageStep

SpecOrder == InitOrder /\ [][NextOrder]_vars

\* C20: the items _process_page returns for a page, the table items set
\* aside, have non-decreasing Y in list order, also on a page with more
\* text lines than character Y groups.
C20_ItemsAscendInY ==
    \A k \in DOMAIN content :
       \A a, b \in DOMAIN content[k].items :
          (/\ a < b
           /\ content[k].items[a].type # "table"
           /\ content[k].items[b].type # "table")
             => content[k].items[a].y <= content[k].items[b].y


(***************************************************************************)
(* SpecItems: _parse_numbered on "1. First item" followed by lines in the  *)
(* three indent bands, each with a letter, a Roman, a digit marker or      *)
(* none.                                                                   *)
(***************************************************************************)
MaxSubLines == 3

\* what may follow the numbered line, before indentation
SubLinePool == {LineSubItem, LineRomanSub, LineNextItem, TextDeep}

\* the first column of each indent band
BandIndents == {SubIndent, SubSubIndent, SubNumberIndent}

InitItems ==
    /\ \E n \in 0..MaxSubLines :
         \E kinds \in [1..n -> SubLinePool], dents \in [1..n -> BandIndents] :
            pdf = <<MakePage(<<LineFirstItem>>
                             \o [k \in 1..n |-> Spaces(dents[k]) \o kinds[k]])>>
    /\ det = NewDetector
    /\ conv = [NewConverter(TitleScope, <<>>, {}, SectionFiles, {})
                 EXCEPT !.content_started = TRUE]
    /\ para = None
    /\ tabs = None
    /\ content = <<>>
    /\ out = None
    /\ pc = "converting"

NextItems == ProcessPageStep

SpecItems == InitItems /\ [][NextItems]_vars

\* the band of line k of a list whose numbered line is line 1 at indent 0
BandOf(lines, k) == NumberedLevel(IndentOf(lines[k]), 0)

\* line k carries the marker of its band
StartsItem(lines, k) == k > 1 /\ LevelMatch(BandOf(lines, k), Strip(lines[k])).ok

\* line m opened an item that is still open when line k is read: no item
\* at the same or a shallower level was started in between
OpenAt(lines, m, k) ==
    /\ m < k
    /\ StartsItem(lines, m)
    /\ \A n \in (m + 1)..(k - 1) :
          StartsItem(lines, n) => BandOf(lines, n) > BandOf(lines, m)

\* the line whose item a line without the marker of its band continues:
\* the deepest open item at or above the line's band, else line 1
OwnerOf(lines, k) ==
    LET open == {m \in DOMAIN lines :
                    OpenAt(lines, m, k) /\ BandOf(lines, m) <= BandOf(lines, k)}
    IN  IF open = {} THEN 1
        ELSE CHOOSE m \in open : \A n \in open : BandOf(lines, n) <= BandOf(lines, m)

\* the text of the item line m starts, given the text after its marker
TextWithContinuations(lines, m, text) ==
    Strip(text \o Flatten([k \in DOMAIN lines |->
                             IF k > 1 /\ ~StartsItem(lines, k) /\ OwnerOf(lines, k) = m
                             THEN <<" ">> \o Strip(lines[k])
                             ELSE <<>>]))

\* the items the claim describes for the list, in line order
ClaimedItems(lines) ==
    <<Numbered(0, <<"1">>, TextWithContinuations(lines, 1, TextFirstItem))>>
    \o Flatten([k \in DOMAIN lines |->
                  IF StartsItem(lines, k)
                  THEN <<Numbered(BandOf(lines, k),
                                  LevelMatch(BandOf(lines, k), Strip(lines[k])).marker,
                                  TextWithContinuations(lines, k,
                                      LevelMatch(BandOf(lines, k), Strip(lines[k])).text))>>
                  ELSE <<>>])

LineBulletDefinitions == <<BULLET, " ">> \o TitleDefinitions
LineNumberDefinitions == <<"1", ".", " ">> \o TitleDefinitions
LineLetterDefinitions == <<"a", ".", " ">> \o TitleDefinitions

ChainLinePool ==
    {TitleDefinitions, LineBulletDefinitions, LineNumberDefinitions,
     Spaces(2) \o LineLetterDefinitions,
     LinePoint, Spaces(2) \o LinePoint,
     LineFirstItem, Spaces(2) \o LineNextItem,
     LineSubItem, Spaces(2) \o LineSubItem,
     CellProduct, TitleOverview, Spaces(2) \o TitleOverview, TextBody}

\* the line, then the rows of a table, all of them inside the table's box
BoxedPage(line) ==
    [MakePage(<<line>> \o TablePageLines(<<>>, <<>>, MinTableRows, <<>>))
       EXCEPT !.tables = <<PriceTable(MinTableRows)>>,
              !.bboxes = <<<<RowHeight - 2, 3 * RowHeight + 12>>>>]

InitChain ==
    /\ \E line \in ChainLinePool :
          \/ pdf = <<MakePage(<<line>>)>>
          \/ pdf = <<BoxedPage(line)>>
    /\ det = NewDetector
    /\ \E subs \in {{}, {Strip(pdf[1].text[1])}} :
          conv = [NewConverter(TitleScope, <<>>, {},
                               <<[title |-> TitleScope, file |-> FileScope],
                                 [title |-> TitleDefinitions, file |-> FileIntro]>>,
                               subs)
                    EXCEPT !.content_started = TRUE]
    /\ para = None
    /\ tabs = None
    /\ content = <<>>
    /\ out = None
    /\ pc = "converting"

NextChain == ProcessPageStep

SpecChain == InitChain /\ [][NextChain]_vars

\* the outcome the ordered chain gives the first line of the page
ClaimedOutcome(c, page, stripped, indent, normalized) ==
    IF IsNextSectionTitle(c, normalized) THEN "stop"
    ELSE IF IsSubTitle(c, normalized) THEN "sub_title"
    ELSE IF stripped[1] = BULLET THEN "bullet"
    ELSE IF NumberMatch(stripped).ok THEN "numbered"
    ELSE IF LetterMatch(stripped).ok /\ indent > 0 THEN "sub_item"
    ELSE IF page.tables # <<>> THEN "swallowed"
    ELSE IF IsHeading(c, normalized) THEN "heading"
    ELSE "paragraph"

\* the items of a page that are not tables
TextItems(items) == SelectSeq(items, LAMBDA item : item.type # "table")

\* what a single item says about the test that produced it
OutcomeOfItem(item) ==
    IF item.type = "heading" THEN (IF item.level = 2 THEN "sub_title" ELSE "heading")
    ELSE IF item.type = "numbered" THEN (IF item.level = 0 THEN "numbered" ELSE "sub_item")
    ELSE item.type

\* what _process_page did with the first line, "several" when the line
\* left more than one trace
ObservedOutcome(r, texts) ==
    IF texts = <<>> THEN (IF r.stop_y # None THEN "stop" ELSE "swallowed")
    ELSE IF Len(texts) > 1 \/ r.stop_y # None THEN "several"
    ELSE OutcomeOfItem(texts[1])

\* C22: the first line of a page gets exactly one outcome, the one of the
\* earliest test it passes in the order next-section stop, sub-title
\* heading, bullet, numbered, lettered sub-item at positive indent, table
\* membership, heading heuristic, paragraph.
C22_EarliestTestDecides ==
    Len(content) = 1 =>
        ObservedOutcome(content[1], TextItems(content[1].items))
            = ClaimedOutcome(conv, pdf[1], Strip(pdf[1].text[1]), IndentOf(pdf[1].text[1]),
                             Collapse(Strip(pdf[1].text[1])))

\* C22 witness: an indented bullet line that is also a level-2 title and
\* lies inside a table's box came out as the level-2 heading only.
C22_Witness ==
    /\ Len(content) = 1
    /\ pdf[1].text[1] = Spaces(2) \o LinePoint
    /\ pdf[1].tables # <<>>
    /\ conv.sub_titles # {}
    /\ Len(TextItems(content[1].items)) = 1
    /\ TextItems(content[1].items)[1].type = "heading"
    /\ TextItems(content[1].items)[1].text = LinePoint

(***************************************************************************)
(* SpecSplice: _process_page on a page of blocks, each a heading line, a   *)
(* line of body text or a two-row table.  The rows of a "table" have short *)
(* cells and are found by the table's box; the rows of a "wide" one have   *)
(* cells long enough to be matched as table text, so that a paragraph runs *)
(* over them.                                                              *)
(***************************************************************************)
MaxSpliceBlocks == 4

SpliceKinds == {"heading", "body", "table", "wide"}

\* the raw table of a wide block: its last cell names the block
WideTable(i) == <<<<CellProduct, CellPrice>>, <<CellBolts, CellNo \o ToDigits(i)>>>>

SpliceTable(kind, i) == IF kind = "wide" THEN WideTable(i) ELSE BlockTable(i)

\* the blocks that are tables, in page order
SpliceTables(kinds) == SelectIdx([i \in DOMAIN kinds |-> i],
                                 {i \in DOMAIN kinds : kinds[i] \in {"table", "wide"}})

SpliceLines(kind, i) ==
    IF kind = "heading" THEN <<TitleOverview>>
    ELSE IF kind = "body" THEN <<TextBody>>
    ELSE [r \in 1..2 |-> Join(SpliceTable(kind, i)[r], <<" ">>)]

SpliceTops(kind, i) == BlockTops(IF kind = "wide" THEN "table" ELSE kind, i)

\* page.extract_text, page.chars and page.find_tables of the page
SplicePage(kinds) ==
    [PlacedPage(Flatten([i \in DOMAIN kinds |-> SpliceLines(kinds[i], i)]),
                Flatten([i \in DOMAIN kinds |-> SpliceTops(kinds[i], i)]))
       EXCEPT !.tables = [k \in DOMAIN SpliceTables(kinds) |->
                            SpliceTable(kinds[SpliceTables(kinds)[k]], SpliceTables(kinds)[k])],
              !.bboxes = [k \in DOMAIN SpliceTables(kinds) |-> BlockBbox(SpliceTables(kinds)[k])]]

InitSplice ==
    /\ \E kinds \in SeqsUpTo(SpliceKinds, MaxSpliceBlocks) \ {<<>>} :
          pdf = <<SplicePage(kinds)>>
    /\ det = NewDetector
    /\ conv = [NewConverter(TitleScope, <<>>, {}, SectionFiles, {})
                 EXCEPT !.content_started = TRUE]
    /\ para = None
    /\ tabs = None
    /\ content = <<>>
    /\ out = None
    /\ pc = "converting"

NextSplice == ProcessPageStep

SpecSplice == InitSplice /\ [][NextSplice]_vars

\* the kinds of the blocks of a page, read off its lines
KindsOf(page) ==
    LET firsts == SelectIdx(page.text,
                     {i \in DOMAIN page.text :
                         \A k \in DOMAIN page.tables :
                            page.text[i] # Join(page.tables[k][2], <<" ">>)})
    IN  [i \in DOMAIN firsts |->
            IF firsts[i] = TitleOverview THEN "heading"
            ELSE IF firsts[i] = TextBody THEN "body"
            ELSE IF firsts[i] = Join(BlockTable(i)[1], <<" ">>) THEN "table"
            ELSE "wide"]

\* block i, a body line or a wide table, is inside a paragraph that a body
\* line before it started: only body lines and wide tables lie in between
InParagraph(kinds, i) ==
    \E b \in 1..(i - 1) :
       kinds[b] = "body" /\ \A h \in (b + 1)..(i - 1) : kinds[h] \in {"body", "wide"}

\* the table blocks whose first line the walk meets and swallows
SwallowedBlocks(kinds) ==
    {t \in DOMAIN kinds :
        kinds[t] = "table" \/ (kinds[t] = "wide" /\ ~InParagraph(kinds, t))}

\* the blocks that give an item of their own, in page order
ItemBlocks(kinds) ==
    SelectIdx([i \in DOMAIN kinds |-> i],
              {i \in DOMAIN kinds :
                  \/ kinds[i] = "heading"
                  \/ kinds[i] = "body" /\ ~InParagraph(kinds, i)})

\* where the claim puts the tables: after the items of the blocks before
\* the first swallowed table block, at the end when no block was swallowed
ClaimedTablePos(kinds) ==
    IF SwallowedBlocks(kinds) = {} THEN Len(ItemBlocks(kinds))
    ELSE Cardinality({k \in DOMAIN ItemBlocks(kinds) :
                         \A t \in SwallowedBlocks(kinds) : ItemBlocks(kinds)[k] < t})

\* the items are the items of the blocks in page order, with the tables of
\* the page in detection order as one block after the first pos of them
SplicedAt(items, kinds, page, pos) ==
    /\ Len(items) = Len(ItemBlocks(kinds)) + Len(page.tables)
    /\ \A k \in DOMAIN page.tables :
          /\ items[pos + k].type = "table"
          /\ Contains(items[pos + k].text, Collapse(page.tables[k][2][2]))
    /\ \A k \in DOMAIN ItemBlocks(kinds) :
          /\ TextItems(items)[k].type
                = (IF kinds[ItemBlocks(kinds)[k]] = "heading" THEN "heading" ELSE "paragraph")
          /\ TextItems(items)[k].y = BlockHeight * ItemBlocks(kinds)[k]

\* C23: the rendered tables of a page stand in detection order as one
\* block at the index the item list had when the first table line was
\* swallowed, the other items keep their order, and the tables stand at the
\* end when no line was swallowed.
C23_TablesSplicedAsBlock ==
    Len(content) = 1 =>
        SplicedAt(content[1].items, KindsOf(pdf[1]), pdf[1], ClaimedTablePos(KindsOf(pdf[1])))

\* C23 witness: two tables went in as one block between a heading and a
\* paragraph that had run over the rows of the second of them.
C23_Witness ==
    /\ Len(content) = 1
    /\ KindsOf(pdf[1]) = <<"heading", "table", "body", "wide">>
    /\ content[1].items[1].type = "heading"
    /\ content[1].items[2].type = "table"
    /\ content[1].items[3].type = "table"
    /\ content[1].items[4].type = "paragraph"

\* C23 witness, no line swallowed: the paragraph ran over the rows of the
\* only table, which went to the end of the items, behind a later heading.
C23_WitnessAppended ==
    /\ Len(content) = 1
    /\ KindsOf(pdf[1]) = <<"body", "wide", "heading">>
    /\ content[1].items[3].type = "table"

(***************************************************************************)
(* convert, the images of a page among its items (on the pages of          *)
(* SpecStop)                                                               *)
(***************************************************************************)
\* the images convert owes page p (counted from 1): saved, on that page,
\* and above the stop boundary when there is one
DueImages(c, p, stop_y) ==
    SelectSeq(c.images,
              LAMBDA img : /\ img.saved_path # None
                           /\ img.page_num = p - 1
                           /\ (stop_y # None => img.y < stop_y[1]))

\* the places of an image in the merged stream
PlacesOf(img, merged) ==
    {n \in DOMAIN merged :
        /\ merged[n].type = "image"
        /\ merged[n].path = ImageDir \o BaseName(img.saved_path)}

\* how many content items stand before place n of the merged stream
ItemsBeforePlace(merged, n) ==
    Cardinality({m \in 1..(n - 1) : merged[m].type # "image"})

\* the image stands right before the first item with a greater Y, or
\* behind all items when none has a greater Y
RightBeforeFirstGreater(img, items, before) ==
    /\ \A j \in 1..before : items[j].y <= img.y
    /\ before < Len(items) => items[before + 1].y > img.y

\* C24: every saved image of a page above the stop boundary is in the
\* merged stream exactly once, right before the first item of the page with
\* a greater Y or behind the last item, the images are in ascending Y, and
\* the items of the page keep their order.
C24_ImagesMergedByY ==
    \A p \in DOMAIN content :
        /\ SelectSeq(content[p].merged, LAMBDA item : item.type # "image") = content[p].items
        /\ Len(content[p].merged)
              = Len(content[p].items) + Len(DueImages(conv, p, content[p].stop_y))
        /\ \A k \in DOMAIN DueImages(conv, p, content[p].stop_y) :
              /\ Cardinality(PlacesOf(DueImages(conv, p, content[p].stop_y)[k],
                                      content[p].merged)) = 1
              /\ \A n \in PlacesOf(DueImages(conv, p, content[p].stop_y)[k], content[p].merged) :
                    /\ RightBeforeFirstGreater(DueImages(conv, p, content[p].stop_y)[k],
                                               content[p].items,
                                               ItemsBeforePlace(content[p].merged, n))
                    /\ \A k2 \in DOMAIN DueImages(conv, p, content[p].stop_y) :
                          \A n2 \in PlacesOf(DueImages(conv, p, content[p].stop_y)[k2],
                                             content[p].merged) :
                             n < n2 => DueImages(conv, p, content[p].stop_y)[k].y
                                          <= DueImages(conv, p, content[p].stop_y)[k2].y

\* C24 witness: two saved images handed over in descending Y came out in
\* ascending Y, the first between two items and the second behind the last.
C24_Witness ==
    /\ Len(content) = 1
    /\ content[1].stop_y = None
    /\ Len(conv.images) = 2
    /\ conv.images[2].saved_path # None
    /\ conv.images[1].y > conv.images[2].y
    /\ Len(content[1].items) = 2
    /\ Len(content[1].merged) = 4
    /\ content[1].merged[1].type # "image"
    /\ content[1].merged[2].type = "image"
    /\ content[1].merged[3].type # "image"
    /\ content[1].merged[4].type = "image"


(***************************************************************************)
(* SpecMarker: _parse_bullet on a bullet with one sub-bullet, then a line  *)
(* holding only a marker glyph, then a line of text at a sub-bullet indent *)
(***************************************************************************)
TextSub == <<"s","u","b"," ","t","e","x","t">>
MarkerGlyphs == {<<"o">>, <<SUBSUB>>}

InitMarker ==
    /\ \E b \in 0..MaxBase :
         \E glyph \in MarkerGlyphs, gap \in {<<>>, <<<<>>>>} :
           \E d \in SubIndent..(SubNumberIndent - 1) :
              pdf = <<MakePage(<<Spaces(b) \o LinePoint,
                                 Spaces(b + SubIndent) \o TextSub,
                                 Spaces(b + SubIndent) \o glyph>>
                               \o gap \o <<Spaces(b + d) \o TextDeep>>)>>
    /\ det = NewDetector
    /\ conv = [NewConverter(TitleScope, <<>>, {}, SectionFiles, {})
                 EXCEPT !.content_started = TRUE]
    /\ para = None
    /\ tabs = None
    /\ content = <<>>
    /\ out = None
    /\ pc = "converting"

NextMarker == ProcessPageStep

SpecMarker == InitMarker /\ [][NextMarker]_vars

\* C25 (as claimed): the line holding only a marker glyph gives no item, and
\* the text line after it, at any indent from the sub-bullet threshold up,
\* is appended to the sub-bullet before the glyph: the page gives the bullet
\* "point" and the one sub-bullet "sub text deep text".
C25_TextAfterMarkerContinues ==
    Len(content) = 1 =>
        UnplacedItems(content[1].items)
            = <<[type |-> "bullet", level |-> 0, marker |-> None,
                 text |-> <<"p","o","i","n","t">>],
                [type |-> "bullet", level |-> 1, marker |-> None,
                 text |-> TextSub \o <<" ">> \o TextDeep]>>

(***************************************************************************)
(* convert after a page on which the scan stopped (on the pages of         *)
(* SpecPage)                                                               *)
(***************************************************************************)
\* the scan of some page converted so far stopped at another section's title
ScanStopped == \E p \in DOMAIN content : content[p].stop_y # None

\* C26 (as claimed): once the scan of a page has stopped at another
\* section's title, converting a later page of the sub-document adds no
\* item to the section's content stream.
C26_NothingAfterStop ==
    [][ScanStopped => ContentItems(content') = ContentItems(content)]_vars


(***************************************************************************)
(* SpecDrop: _process_page on a page of blocks, each a line of body text,  *)
(* the neighbour's title, a two-column table or a one-column table, which  *)
(* _clean_tables discards.                                                 *)
(***************************************************************************)
DropKinds == {"body", "title", "table", "column"}

CellList == <<"L","i","s","t">>
CellEntry == <<"E","n","t","r","y"," ">>

\* the raw table of a one-column block: its last cell names the block
ColumnTable(i) == <<<<CellList>>, <<CellEntry \o CellNo \o ToDigits(i)>>>>

DropTable(kind, i) == IF kind = "column" THEN ColumnTable(i) ELSE BlockTable(i)

\* the blocks for which page.find_tables finds a table, in page order
DropTables(kinds) == SelectIdx([i \in DOMAIN kinds |-> i],
                               {i \in DOMAIN kinds : kinds[i] \in {"table", "column"}})

DropLines(kind, i) ==
    IF kind \in {"body", "title"} THEN BlockLines(kind, i)
    ELSE [r \in 1..2 |-> Join(DropTable(kind, i)[r], <<" ">>)]

DropTops(kind, i) == BlockTops(IF kind = "column" THEN "table" ELSE kind, i)

\* page.extract_text, page.chars and page.find_tables of the page
DropPage(kinds) ==
    [PlacedPage(Flatten([i \in DOMAIN kinds |-> DropLines(kinds[i], i)]),
                Flatten([i \in DOMAIN kinds |-> DropTops(kinds[i], i)]))
       EXCEPT !.tables = [k \in DOMAIN DropTables(kinds) |->
                            DropTable(kinds[DropTables(kinds)[k]], DropTables(kinds)[k])],
              !.bboxes = [k \in DOMAIN DropTables(kinds) |-> BlockBbox(DropTables(kinds)[k])]]

InitDrop ==
    /\ \E kinds \in SeqsUpTo(DropKinds, MaxBlocks) \ {<<>>} : pdf = <<DropPage(kinds)>>
    /\ det = NewDetector
    /\ conv = [NewConverter(TitleScope, <<>>, {}, SectionFiles, {})
                 EXCEPT !.content_started = TRUE]
    /\ para = None
    /\ tabs = None
    /\ content = <<>>
    /\ out = None
    /\ pc = "converting"

NextDrop == ProcessPageStep

SpecDrop == InitDrop /\ [][NextDrop]_vars

\* the last cell of a raw table
LastCell(table) == table[Len(table)][Len(table[Len(table)])]

\* C27 (as claimed): the text of the rows of every table found above the
\* stop boundary is in the page's items, in the rendered table when the
\* table survives cleaning and in the text items when it does not; no row
\* is swallowed without its table being rendered.
C27_SwallowedOnlyIfRendered ==
    Len(content) = 1 =>
        \A k \in DOMAIN pdf[1].tables :
           (content[1].stop_y = None \/ pdf[1].bboxes[k][1] < content[1].stop_y[1])
              => \E n \in DOMAIN content[1].items :
                    Contains(content[1].items[n].text, LastCell(pdf[1].tables[k]))


(***************************************************************************)
(* SpecOrphan: a page that opens with the lettered line "a. Sub item" at   *)
(* a positive indent, followed by the numbered line "2. Next item" at any  *)
(* indent: the list is continued without its numbered parent.              *)
(***************************************************************************)
MaxOrphanIndent == 9

InitOrphan ==
    /\ \E indent \in 1..MaxOrphanIndent, pk_indent \in 0..MaxOrphanIndent :
          pdf = <<MakePage(<<Spaces(indent) \o LineSubItem,
                             Spaces(pk_indent) \o LineNextItem>>)>>
    /\ det = NewDetector
    /\ conv = [NewConverter(TitleScope, <<>>, {}, SectionFiles, {})
                 EXCEPT !.content_started = TRUE]
    /\ para = None
    /\ tabs = None
    /\ content = <<>>
    /\ out = None
    /\ pc = "converting"

NextOrphan == ProcessPageStep

SpecOrphan == InitOrphan /\ [][NextOrphan]_vars

\* the lines _parse_numbered consumes when the main walk calls it for the
\* lettered line 1 of the page: the lines before the index it returns
ConsumedAsSub(c, lines) ==
    1..(ParseNumbered(c, lines, 1, EffectiveBase(lines, 1, IndentOf(lines[1])), TRUE).j - 1)

\* the text a line carries after its marker
TextAfterMarker(stripped) ==
    IF LetterMatch(stripped).ok THEN LetterMatch(stripped).text
    ELSE IF NumberMatch(stripped).ok THEN NumberMatch(stripped).text
    ELSE stripped

\* C28: the text of every line that _parse_numbered consumes in
\* start_as_sub mode appears in the text of some emitted numbered item,
\* whatever the indent of the line relative to the estimated base.
C28_ConsumedLinesEmitted ==
    Len(content) = 1 =>
        \A k \in ConsumedAsSub(conv, pdf[1].text) :
           \E n \in DOMAIN content[1].items :
              /\ content[1].items[n].type = "numbered"
              /\ Contains(content[1].items[n].text,
                          TextAfterMarker(Strip(pdf[1].text[k])))


(***************************************************************************)
(* Links put in by one call of _apply_hyperlinks (on SpecLinks)            *)
(***************************************************************************)
\* how many of the first i characters of s are ch
CountUpTo(s, i, ch) == Cardinality({k \in 1..i : s[k] = ch})

\* position i of s lies in the label of a link: a "[" before it is not
\* closed yet
InLabel(s, i) == CountUpTo(s, i - 1, "[") > CountUpTo(s, i - 1, "]")

\* position i of s lies in the URL part of a link: the nearest "(" before
\* it follows a "]" and no ")" lies in between
InUrl(s, i) ==
    \E k \in 2..(i - 1) :
       /\ s[k] = "(" /\ s[k - 1] = "]"
       /\ \A u \in (k + 1)..(i - 1) : s[u] # ")"

\* C29: a substitution never changes text inside a link put in by an
\* earlier substitution of the same call: in the result no link opens
\* inside the label of another link and none opens inside a URL part.
C29_NoLinkInsideLink ==
    pc = "linked" =>
        \A i \in DOMAIN para.result :
           para.result[i] = "[" =>
              ~InLabel(para.result, i) /\ ~InUrl(para.result, i)


(***************************************************************************)
(* SpecWalk: the while loop of _process_page taken one iteration at a      *)
(* time.  para holds the cleaned lines and the index i of the loop         *)
(* (1-based), tabs what the loop knows of the page's tables.               *)
(***************************************************************************)
MaxWalkLines == 3

\* the lines the walk is run on: body text, a blank line, a bullet, deep
\* text, a numbered line, a lettered line right of a numbered one, the
\* title of another section, a row of the table
WalkPool ==
    {TextLower, <<>>, LinePoint, Spaces(SubIndent) \o TextDeep, LineFirstItem,
     Spaces(3) \o LineSubItem, Spaces(1) \o LineNextItem, TitleDefinitions,
     Join(PriceTable(2)[1], <<" ">>)}

\* the index the loop goes on with after its iteration on line i; a break
\* leaves the loop, which is the index past the last line
NextIndex(c, tc, lines, i, stripped, indent, normalized, item_y) ==
    IF stripped = <<>> THEN i + 1
    ELSE IF IsNextSectionTitle(c, normalized) THEN Len(lines) + 1
    ELSE IF IsSubTitle(c, normalized) THEN i + 1
    ELSE IF stripped[1] = BULLET THEN ParseBullet(c, lines, i, indent).j
    ELSE IF NumberMatch(stripped).ok THEN ParseNumbered(c, lines, i, indent, FALSE).j
    ELSE IF IsContinuedSubItem(stripped, indent)
    THEN ParseNumbered(c, lines, i, EffectiveBase(lines, i, indent), TRUE).j
    ELSE IF InTable(tc, normalized, item_y) THEN i + 1
    ELSE IF IsHeading(c, normalized) THEN i + 1
    ELSE ParseParagraph(c, lines, i, indent,
                        IF tc.cleaned_tables # <<>> THEN tc.table_content ELSE {}).j

\* the same for the line the walk of para is at, Y positions 20 apart
NextOf(c, tc, w) ==
    NextIndex(c, tc, w.lines, w.i, Strip(w.lines[w.i]), IndentOf(w.lines[w.i]),
              Collapse(Strip(w.lines[w.i])), 20 * w.i)

InitWalk ==
    /\ pdf = <<>>
    /\ det = NewDetector
    /\ conv = [NewConverter(TitleScope, <<>>, {},
                            <<[title |-> TitleScope, file |-> FileScope],
                              [title |-> TitleDefinitions, file |-> FileIntro]>>, {})
                 EXCEPT !.content_started = TRUE]
    /\ \E lines \in SeqsUpTo(WalkPool, MaxWalkLines) : para = [lines |-> lines, i |-> 1]
    /\ \E tables \in {<<>>, <<PriceTable(2)>>} :
          tabs = TableContext(tables, [k \in DOMAIN tables |-> <<38, 52>>])
    /\ content = None
    /\ out = None
    /\ pc = "walking"

\* one iteration of the loop
WalkStep ==
    /\ pc = "walking"
    /\ para.i <= Len(para.lines)
    /\ para' = [para EXCEPT !.i = NextOf(conv, tabs, para)]
    /\ UNCHANGED <<out, pdf, det, conv, tabs, content, pc>>

\* the loop test fails
WalkEnd ==
    /\ pc = "walking"
    /\ para.i > Len(para.lines)
    /\ pc' = "walked"
    /\ UNCHANGED <<out, pdf, det, conv, para, tabs, content>>

NextWalk == WalkStep \/ WalkEnd

SpecWalk == InitWalk /\ [][NextWalk]_vars

\* C30: every iteration of the line walk goes on with a larger index:
\* _parse_bullet, _parse_numbered (also in start_as_sub mode) and
\* _parse_paragraph each return an index greater than the one they were
\* called with, so the walk ends on every finite list of lines.
C30_IndexIncreases ==
    (pc = "walking" /\ para.i <= Len(para.lines)) => NextOf(conv, tabs, para) > para.i

\* C30 witness: the walk has passed the lettered line "   a. Sub item",
\* which _parse_numbered took in start_as_sub mode with the indent of the
\* numbered line below it as base.
C30_Witness ==
    /\ pc = "walking"
    /\ Len(para.lines) >= 2
    /\ para.lines[1] = Spaces(3) \o LineSubItem
    /\ para.lines[2] = Spaces(1) \o LineNextItem
    /\ para.i = 2

=============================================================================
